---- MODULE Spec2Model ----
(***************************************************************************)
(* Deterministic evidence engine of the xungu (gloss classification)       *)
(* repository: the glossing-formula recogniser (src/tools/pattern_tool.py) *)
(* and the phonological comparator (src/tools/phonology_tool.py,           *)
(* src/data/phonology_parser.py).                                           *)
(*                                                                         *)
(* Characters are written as ASCII names, one string per character:        *)
(*   du 读  wei 为  yue 曰  dang 当  zuo 作  tong 通  yu 与  gen 跟          *)
(*   gu 古  zi 字  jia 假  jie 借  ruo 若  ru 如  huo 或  sheng 声  jin 近   *)
(*   zhi 之  yan 言  you 犹  weiz 谓  mao 貌  suo 所  yi 以  zhe 者  ji 即   *)
(*   ye 也  chong 崇  zhong 终  zhongT 終  duT 讀  weiT 為                   *)
(*   fcomma ，  comma ,  dun 、  period 。  qmark ？  lq 「  sp (space)      *)
(*   a (a Latin letter).  A sentence is a sequence of characters.          *)
(***************************************************************************)
EXTENDS Integers, Sequences, FiniteSets, TLC

VARIABLES opencc, patterns, sentence, result,
          file, data, _index, _loaded, reads, out,
          jsonl, index_file, builder, loader, tool_loaded, served,
          call, analysis, bundle, cascade,
          readers, handles, executor

patternVars == <<patterns, sentence, result>>

phonologyVars == <<file, data, _index, _loaded, reads, out>>

indexVars == <<jsonl, index_file, builder, loader, tool_loaded, served>>

agentVars == <<call, analysis, bundle, cascade>>

lookupVars == <<readers, handles>>

vars == <<opencc, patterns, sentence, result,
          file, data, _index, _loaded, reads, out,
          jsonl, index_file, builder, loader, tool_loaded, served,
          call, analysis, bundle, cascade, readers, handles, executor>>

-----------------------------------------------------------------------------
(* Alphabet *)

Ideographs ==
  {"du", "wei", "yue", "dang", "zuo", "tong", "yu", "gen", "gu", "zi",
   "jia", "jie", "ruo", "ru", "huo", "sheng", "jin", "zhi", "yan", "you",
   "weiz", "mao", "suo", "yi", "zhe", "ji", "ye",
   "chong", "zhong", "zhongT", "duT", "weiT"}

Whitespace == {"sp"}

Alphabet ==
  Ideographs \cup Whitespace
    \cup {"fcomma", "comma", "dun", "period", "qmark", "lq", "a"}

\* '.' of the regexes: every character but the newline (not in Alphabet)
Dot == Alphabet

\* [^，,]
NotComma == Alphabet \ {"fcomma", "comma"}

-----------------------------------------------------------------------------
(* Regular expressions: a sequence of quantified character classes, each   *)
(* optionally a capture group; all patterns of the table start with ^.     *)

Item(cls, lo, many, lazy, grp) ==
  [cls |-> cls, lo |-> lo, many |-> many, lazy |-> lazy, grp |-> grp]

Lit(c) == Item({c}, 1, FALSE, FALSE, 0)

Cls(S) == Item(S, 1, FALSE, FALSE, 0)

Opt(S) == Item(S, 0, FALSE, FALSE, 0)

Star(S) == Item(S, 0, TRUE, FALSE, 0)

LazyGroup(S, n) == Item(S, 1, TRUE, TRUE, n)

GreedyGroup(S, n) == Item(S, 1, TRUE, FALSE, n)

NoMatch == [ok |-> FALSE, g1 |-> <<>>, g2 |-> <<>>, n |-> 0]

\* length of the run of characters of cls in s from position pos
RECURSIVE Run(_, _, _)
Run(s, pos, cls) ==
  IF pos <= Len(s) /\ s[pos] \in cls THEN 1 + Run(s, pos + 1, cls) ELSE 0

RECURSIVE MatchFrom(_, _, _, _, _)
RECURSIVE TryCount(_, _, _, _, _, _, _)

\* backtracking match of items[i..] at position pos of s
MatchFrom(items, anchored, i, s, pos) ==
  IF i > Len(items)
  THEN IF anchored /\ pos # Len(s) + 1
       THEN NoMatch
       ELSE [ok |-> TRUE, g1 |-> <<>>, g2 |-> <<>>, n |-> 0]
  ELSE LET it == items[i]
           run == Run(s, pos, it.cls)
           maxk == IF it.many THEN run ELSE IF run > 1 THEN 1 ELSE run
       IN IF maxk < it.lo
          THEN NoMatch
          ELSE TryCount(items, anchored, i, s, pos,
                        IF it.lazy THEN it.lo ELSE maxk, maxk)

\* try item i with k repetitions, then the next count in preference order
TryCount(items, anchored, i, s, pos, k, maxk) ==
  LET it == items[i]
      rest == MatchFrom(items, anchored, i + 1, s, pos + k)
      cap == SubSeq(s, pos, pos + k - 1)
  IN IF k < it.lo \/ k > maxk
     THEN NoMatch
     ELSE IF rest.ok
          THEN [ok |-> TRUE,
                g1 |-> IF it.grp = 1 THEN cap ELSE rest.g1,
                g2 |-> IF it.grp = 2 THEN cap ELSE rest.g2,
                n  |-> IF it.grp > rest.n THEN it.grp ELSE rest.n]
          ELSE TryCount(items, anchored, i, s, pos,
                        IF it.lazy THEN k + 1 ELSE k - 1, maxk)

\* compiled.search(sentence): every pattern begins with ^, so the only
\* candidate start is the first position
Search(re, s) == MatchFrom(re.items, re.anchored, 1, s, 1)

-----------------------------------------------------------------------------
(* XUNSHI_PATTERNS: the rule table *)

Sep == Cls({"fcomma", "comma"})

Ws == Star(Whitespace)

EndPunct == Opt({"period", "qmark"})

\* ^(.+?)[，,]\s*<keyword>\s*(.+?)[。？]?$
KeywordRegex(kw) ==
  [items |-> <<LazyGroup(Dot, 1), Sep, Ws>> \o [j \in 1..Len(kw) |-> Lit(kw[j])]
               \o <<Ws, LazyGroup(Dot, 2), EndPunct>>,
   anchored |-> TRUE]

Rule(regex, type, confidence, direct_judge) ==
  [regex |-> regex, type |-> type, confidence |-> confidence,
   direct_judge |-> direct_judge]

\* implied types: jiajie 假借, keneng_jiajie 可能假借, yisheng_tongyi 以声通义,
\* yuyi_jieshi 语义解释, buqueding 不确定; confidence: jigao 极高, gao 高,
\* zhong 中, di 低
XUNSHI_PATTERNS ==
  [du_wei |-> Rule(KeywordRegex(<<"du", "wei">>), "jiajie", "jigao", TRUE),
   du_yue |-> Rule(KeywordRegex(<<"du", "yue">>), "jiajie", "jigao", TRUE),
   du_dang_wei |->
     Rule([items |-> <<LazyGroup(Dot, 1), Sep, Ws, Opt({"du"}), Lit("dang"),
                       Lit("wei"), Ws, LazyGroup(Dot, 2), EndPunct>>,
           anchored |-> TRUE], "jiajie", "gao", TRUE),
   dang_wei |-> Rule(KeywordRegex(<<"dang", "wei">>), "jiajie", "gao", TRUE),
   dang_zuo |-> Rule(KeywordRegex(<<"dang", "zuo">>), "jiajie", "gao", TRUE),
   tong |->
     Rule([items |-> <<LazyGroup(Dot, 1), Cls({"yu", "gen"}),
                       LazyGroup(Dot, 2), Lit("tong")>>,
           anchored |-> TRUE], "jiajie", "gao", TRUE),
   gu_zi_tong |->
     Rule([items |-> <<LazyGroup(Dot, 1), Cls({"dun", "comma", "fcomma"}), Ws,
                       LazyGroup(Dot, 2), Opt({"fcomma", "comma"}), Ws,
                       Lit("gu"), Lit("zi"), Lit("tong"), EndPunct>>,
           anchored |-> TRUE], "jiajie", "gao", TRUE),
   jia_jie_zi |->
     Rule([items |-> <<LazyGroup(Dot, 1), Sep, Ws, Star(Dot), Lit("jia"),
                       Lit("jie"), Lit("zi"), Star(Dot)>>,
           anchored |-> FALSE], "jiajie", "jigao", TRUE),
   jie_wei |-> Rule(KeywordRegex(<<"jie", "wei">>), "jiajie", "jigao", TRUE),
   du_ruo |-> Rule(KeywordRegex(<<"du", "ruo">>), "keneng_jiajie", "zhong", FALSE),
   du_ru |-> Rule(KeywordRegex(<<"du", "ru">>), "keneng_jiajie", "zhong", FALSE),
   huo_zuo |-> Rule(KeywordRegex(<<"huo", "zuo">>), "keneng_jiajie", "zhong", FALSE),
   sheng_jin |->
     Rule([items |-> <<LazyGroup(Dot, 1), Sep, Ws, Star(Dot), Lit("sheng"),
                       Lit("jin"), Star(Dot)>>,
           anchored |-> FALSE], "keneng_jiajie", "zhong", FALSE),
   zhi_yan |->
     Rule([items |-> <<LazyGroup(Dot, 1), Lit("zhi"), Opt({"wei"}), Lit("yan"),
                       Ws, LazyGroup(Dot, 2), Opt({"ye"}), EndPunct>>,
           anchored |-> TRUE], "yisheng_tongyi", "gao", FALSE),
   you |->
     Rule([items |-> <<LazyGroup(Dot, 1), Sep, Ws, Lit("you"), Ws,
                       LazyGroup(Dot, 2), Opt({"ye", "period", "qmark"})>>,
           anchored |-> TRUE], "yuyi_jieshi", "gao", TRUE),
   you_yan |-> Rule(KeywordRegex(<<"you", "yan">>), "yuyi_jieshi", "gao", TRUE),
   wei_zhi |-> Rule(KeywordRegex(<<"weiz", "zhi">>), "yuyi_jieshi", "gao", TRUE),
   zhi_mao |->
     Rule([items |-> <<LazyGroup(Dot, 1), Sep, Ws, LazyGroup(Dot, 2),
                       Lit("zhi"), Lit("mao"), EndPunct>>,
           anchored |-> TRUE], "yuyi_jieshi", "jigao", TRUE),
   mao |->
     Rule([items |-> <<LazyGroup(Dot, 1), Sep, Ws, LazyGroup(Dot, 2),
                       Lit("mao"), EndPunct>>,
           anchored |-> TRUE], "yuyi_jieshi", "gao", TRUE),
   suo_yi |->
     Rule([items |-> <<LazyGroup(Dot, 1), Sep, Ws, Lit("suo"), Lit("yi"),
                       GreedyGroup(Dot, 2), Opt({"ye"}), EndPunct>>,
           anchored |-> TRUE], "yuyi_jieshi", "gao", TRUE),
   zhe_ye |->
     Rule([items |-> <<LazyGroup(Dot, 1), Lit("zhe"), Opt({"fcomma", "comma"}),
                       Ws, LazyGroup(Dot, 2), Lit("ye"), EndPunct>>,
           anchored |-> TRUE], "buqueding", "di", FALSE),
   ji |-> Rule(KeywordRegex(<<"ji">>), "buqueding", "di", FALSE),
   A_ye |->
     Rule([items |-> <<LazyGroup(NotComma, 1), Sep, Ws, LazyGroup(NotComma, 2),
                       Lit("ye"), EndPunct>>,
           anchored |-> TRUE], "buqueding", "di", FALSE)]

\* PatternTool.__init__: self.patterns holds the rules whose regex compiles,
\* which is every rule of the table
CompiledRules == DOMAIN XUNSHI_PATTERNS

\* the rules tried in the order of the table (dictionary order)
priority_order_table ==
  <<"du_wei", "du_yue", "du_dang_wei", "dang_wei", "dang_zuo", "tong",
    "gu_zi_tong", "jia_jie_zi", "jie_wei",
    "du_ruo", "du_ru", "huo_zuo", "sheng_jin",
    "zhi_yan", "you", "you_yan", "wei_zhi", "zhi_mao", "mao", "suo_yi",
    "zhe_ye", "ji", "A_ye">>

\* the generic rule tried before the specific ones
priority_order_generic_first ==
  <<"A_ye", "du_wei", "du_yue", "du_dang_wei", "dang_wei", "dang_zuo", "tong",
    "gu_zi_tong", "jia_jie_zi", "jie_wei",
    "zhi_yan", "wei_zhi", "zhi_mao", "mao", "suo_yi", "you", "you_yan",
    "du_ruo", "du_ru", "huo_zuo", "sheng_jin",
    "zhe_ye", "ji">>

priority_order ==
  <<"du_wei", "du_yue", "du_dang_wei", "dang_wei", "dang_zuo", "tong",
    "gu_zi_tong", "jia_jie_zi", "jie_wei",
    "zhi_yan", "wei_zhi", "zhi_mao", "mao", "suo_yi", "you", "you_yan",
    "du_ruo", "du_ru", "huo_zuo", "sheng_jin",
    "zhe_ye", "ji", "A_ye">>

-----------------------------------------------------------------------------
(* PatternTool.identify *)

\* OpenCC('t2s').convert on one character: traditional -> simplified
T2S(s) ==
  [j \in 1..Len(s) |->
     CASE s[j] = "zhongT" -> "zhong"
       [] s[j] = "duT" -> "du"
       [] s[j] = "weiT" -> "wei"
       [] OTHER -> s[j]]

\* str.strip(): drop leading and trailing whitespace
RECURSIVE LStrip(_)
LStrip(s) ==
  IF s # <<>> /\ Head(s) \in Whitespace THEN LStrip(SubSeq(s, 2, Len(s))) ELSE s

RECURSIVE RStrip(_)
RStrip(s) ==
  IF s # <<>> /\ s[Len(s)] \in Whitespace
  THEN RStrip(SubSeq(s, 1, Len(s) - 1))
  ELSE s

Strip(s) == RStrip(LStrip(s))

\* the characters removed by _clean_char: 。，、；：' and the brackets
CleanPunct ==
  {"period", "fcomma", "dun", "semicolon", "colon", "apos", "lq", "rq",
   "ldq", "rdq", "lb", "rb", "lt", "rt", "lfp", "rfp", "lp", "rp"}

_clean_char(text) == Strip(SelectSeq(text, LAMBDA c : c \notin CleanPunct))

\* the first character whatever it is
_extract_first_char_any(s) == IF s = <<>> THEN <<>> ELSE <<Head(s)>>

\* characters in the range U+4E00..U+9FFF
RECURSIVE _extract_first_char(_)
_extract_first_char(s) ==
  IF s = <<>> THEN <<>>
  ELSE IF Head(s) \in Ideographs THEN <<Head(s)>>
  ELSE _extract_first_char(SubSeq(s, 2, Len(s)))

\* the sentence the rules are tried on
Normalize(cc, raw) == Strip(IF cc THEN T2S(raw) ELSE raw)

\* ^([^，,]+)[，,]\s*(.+?)也$ : the secondary match of the A也 rule
AYeRegex ==
  [items |-> <<GreedyGroup(NotComma, 1), Sep, Ws, LazyGroup(Dot, 2), Lit("ye")>>,
   anchored |-> TRUE]

Reverse(q) == [j \in 1..Len(q) |-> q[Len(q) + 1 - j]]

\* the matching names, the last of the list first
MatchingLastFirst(s) ==
  SelectSeq(Reverse(priority_order),
            LAMBDA name : name \in patterns
                          /\ Search(XUNSHI_PATTERNS[name].regex, s).ok)

\* names of priority_order, in order, whose regex matches s
Matching(s) ==
  SelectSeq(priority_order,
            LAMBDA name : name \in patterns
                          /\ Search(XUNSHI_PATTERNS[name].regex, s).ok)

\* target and gloss exchanged
PatternResultSwapped(name, a, b, type, confidence, direct) ==
  [pattern_name |-> name, char_a |-> b, char_b |-> a, implied_type |-> type,
   confidence |-> confidence, can_direct_judge |-> direct]

PatternResult(name, a, b, type, confidence, direct) ==
  [pattern_name |-> name, char_a |-> a, char_b |-> b, implied_type |-> type,
   confidence |-> confidence, can_direct_judge |-> direct]

Identify(cc, raw) ==
  LET s == Normalize(cc, raw)
      hits == Matching(s)
  IN IF hits = <<>>
     THEN PatternResult("unknown", _extract_first_char(s), <<>>,
                        "buqueding", "di", FALSE)
     ELSE LET name == Head(hits)
              config == XUNSHI_PATTERNS[name]
              m == Search(config.regex, s)
              a0 == _clean_char(IF m.n > 0 THEN m.g1 ELSE <<>>)
              b0 == _clean_char(IF m.n > 1 THEN m.g2 ELSE <<>>)
              a1 == IF name = "A_ye" /\ a0 = <<>>
                    THEN _extract_first_char(s) ELSE a0
              m2 == Search(AYeRegex, s)
              again == name = "A_ye" /\ b0 = <<>> /\ m2.ok
          IN PatternResult(name,
                           IF again THEN Strip(m2.g1) ELSE a1,
                           IF again THEN Strip(m2.g2) ELSE b0,
                           config.type, config.confidence, config.direct_judge)

-----------------------------------------------------------------------------
(* Phonology data.  Rhyme classes (韵部): dong 東, yang 陽; initial classes  *)
(* (声母): duan 端, ding 定, zhang 章, chong 崇.  A reconstruction is a       *)
(* sequence of symbols; N stands for ŋ.  weizhi 未知 and weishoulu 未收录    *)
(* are the two sentinels of PhonologyTool.query.                            *)

UNKNOWN == "weizhi"

NOT_INCLUDED == "weishoulu"

\* the same two sentinels as reconstructions (strings of characters)
UNKNOWN_OC == <<"wei", "zhi">>

NOT_INCLUDED_OC == <<"wei", "shou", "lu">>

NoPan == [present |-> FALSE, shengmu |-> "", yunbu |-> "", oc |-> <<>>]

Pan(shengmu, yunbu, oc) ==
  [present |-> TRUE, shengmu |-> shengmu, yunbu |-> yunbu, oc |-> oc]

NoBs == [present |-> FALSE, oc |-> <<>>]

Bs(oc) == [present |-> TRUE, oc |-> oc]

\* an entry of the unified phonology file: the sections 潘悟云 and 白一平沙加尔
Entry(pan, bs) == [pan |-> pan, bs |-> bs]

NoData == [c \in {} |-> Entry(NoPan, NoBs)]

_get_mock_data ==
  [c \in {"chong", "zhongT"} |->
     IF c = "chong"
     THEN Entry(Pan("chong", "dong", <<"*", "d", "z", "r", "u", "N">>),
                Bs(<<"*", "[", "d", "z", "]", "<", "r", ">", "u", "N">>))
     ELSE Entry(Pan("zhang", "dong", <<"*", "t", "j", "u", "N">>),
                Bs(<<"*", "t", "u", "N">>))]

PhonologyInfo(char, char_trad, shengmu, yunbu, pan_oc, bs_oc) ==
  [kind |-> "info", char |-> char, char_trad |-> char_trad,
   shengmu |-> shengmu, yunbu |-> yunbu,
   pan_reconstruction |-> pan_oc, bs_reconstruction |-> bs_oc]

\* PhonologyTool.query on a loaded index
Query(cc, index, char) ==
  LET \* OpenCC('s2t').convert on one character: simplified -> traditional
      s2t == IF char = "zhong" THEN "zhongT" ELSE char
      trad == IF cc THEN s2t ELSE char
      key == IF trad \in DOMAIN index THEN trad ELSE char
  IN IF key \in DOMAIN index
     THEN LET e == index[key]
          IN PhonologyInfo(char, key,
               IF e.pan.present THEN e.pan.shengmu ELSE UNKNOWN,
               IF e.pan.present THEN e.pan.yunbu ELSE UNKNOWN,
               IF e.pan.present THEN e.pan.oc ELSE UNKNOWN_OC,
               IF e.bs.present THEN e.bs.oc ELSE UNKNOWN_OC)
     ELSE PhonologyInfo(char, trad, NOT_INCLUDED, NOT_INCLUDED,
                        NOT_INCLUDED_OC, NOT_INCLUDED_OC)

\* _clean_ipa removes the notation * [ ] ( ) < > - and whitespace
_clean_ipa(ipa) ==
  IF ipa = <<>> \/ ipa = UNKNOWN_OC
  THEN <<>>
  ELSE SelectSeq(ipa, LAMBDA c : c \notin {"*", "[", "]", "(", ")", "<", ">", "-", "sp"})

\* a[i..i+k-1] = b[j..j+k-1]
Block(a, b, i, j, k) ==
  /\ i + k - 1 <= Len(a)
  /\ j + k - 1 <= Len(b)
  /\ \A q \in 0..(k - 1) : a[i + q] = b[j + q]

Min(S) == CHOOSE x \in S : \A y \in S : x <= y

\* difflib.SequenceMatcher: the number of matched characters, found by taking
\* the longest common block (earliest in a, then earliest in b) and recursing
\* to its left and to its right
RECURSIVE MatchedCount(_, _)
MatchedCount(a, b) ==
  LET sizes == {k \in 1..Len(a) :
                  \E i \in 1..Len(a), j \in 1..Len(b) : Block(a, b, i, j, k)}
  IN IF sizes = {}
     THEN 0
     ELSE LET k == CHOOSE x \in sizes : \A y \in sizes : x >= y
              i == Min({x \in 1..Len(a) :
                          \E y \in 1..Len(b) : Block(a, b, x, y, k)})
              j == Min({y \in 1..Len(b) : Block(a, b, i, y, k)})
          IN k + MatchedCount(SubSeq(a, 1, i - 1), SubSeq(b, 1, j - 1))
               + MatchedCount(SubSeq(a, i + k, Len(a)), SubSeq(b, j + k, Len(b)))

\* the similarity threshold 0.75, in percent
SimThreshold == 75

\* equal strings counting as similar before the test for an empty string
SimilarEnoughEqualFirst(s1, s2) ==
  IF s1 = s2 THEN TRUE
  ELSE IF s1 = <<>> \/ s2 = <<>> THEN FALSE
  ELSE 200 * MatchedCount(s1, s2) >= SimThreshold * (Len(s1) + Len(s2))

\* _calculate_similarity(s1, s2) >= 0.75, the ratio being 2*M/(len1+len2)
SimilarEnough(s1, s2) ==
  IF s1 = <<>> \/ s2 = <<>> THEN FALSE
  ELSE IF s1 = s2 THEN TRUE
  ELSE 200 * MatchedCount(s1, s2) >= SimThreshold * (Len(s1) + Len(s2))

_get_best_recon(p) ==
  IF p.bs_reconstruction # UNKNOWN_OC
  THEN [recon |-> p.bs_reconstruction, source |-> "baxter_sagart"]
  ELSE IF p.pan_reconstruction # UNKNOWN_OC
       THEN [recon |-> p.pan_reconstruction, source |-> "pan_wuyun"]
       ELSE [recon |-> UNKNOWN_OC, source |-> "none"]

_format_info(p) ==
  [fanti |-> p.char_trad, shengmu |-> p.shengmu, yunbu |-> p.yunbu,
   shanggu_yin |-> _get_best_recon(p).recon,
   source |-> _get_best_recon(p).source]

\* the reconstruction compared: Baxter-Sagart unless unknown, else Pan
ComparedRecon(p) ==
  _clean_ipa(IF p.bs_reconstruction # UNKNOWN_OC
             THEN p.bs_reconstruction ELSE p.pan_reconstruction)

\* the data-missing test never taken
MissingDataNever(p1, p2) == FALSE

\* the check for missing data
MissingData(p1, p2) == p1.yunbu = NOT_INCLUDED \/ p2.yunbu = NOT_INCLUDED

SameYunbu(p1, p2) == p1.yunbu = p2.yunbu /\ p1.yunbu # UNKNOWN

SameShengmu(p1, p2) == p1.shengmu = p2.shengmu /\ p1.shengmu # UNKNOWN

SimilarRecon(p1, p2) == SimilarEnough(ComparedRecon(p1), ComparedRecon(p2))

\* the same rhyme class counting only together with the same initial class
IsCloseNeedsInitial(p1, p2) ==
  (SameYunbu(p1, p2) /\ SameShengmu(p1, p2)) \/ SimilarRecon(p1, p2)

\* the verdict: same rhyme class, or else reconstructions similar enough
IsClose(p1, p2) == SameYunbu(p1, p2) \/ SimilarRecon(p1, p2)

\* PhonologyTool.is_phonetically_close on a loaded index.  analysis is the
\* list of reasons: shuju_queshi 数据缺失, dieyun 叠韵, yin_ji_jin 音极近,
\* shuangsheng 双声, chayi 音韵差异较大.
IsPhoneticallyClose(cc, index, char1, char2) ==
  LET p1 == Query(cc, index, char1)
      p2 == Query(cc, index, char2)
  IN IF MissingData(p1, p2)
     THEN [kind |-> "close", char1 |-> char1, char2 |-> char2,
           is_close |-> FALSE, analysis |-> <<"shuju_queshi">>,
           char1_info |-> _format_info(p1), char2_info |-> _format_info(p2)]
     ELSE [kind |-> "close", char1 |-> char1, char2 |-> char2,
           is_close |-> IsClose(p1, p2),
           same_yunbu |-> SameYunbu(p1, p2),
           same_shengmu |-> SameShengmu(p1, p2),
           char1_info |-> _format_info(p1), char2_info |-> _format_info(p2),
           analysis |->
             (IF SameYunbu(p1, p2) THEN <<"dieyun">> ELSE <<>>)
             \o (IF ~SameYunbu(p1, p2) /\ IsClose(p1, p2)
                 THEN <<"yin_ji_jin">> ELSE <<>>)
             \o (IF SameShengmu(p1, p2) THEN <<"shuangsheng">> ELSE <<>>)
             \o (IF ~IsClose(p1, p2) THEN <<"chayi">> ELSE <<>>)]

\* the articulation groups of compare_phonology
similar_shengmu ==
  {{"duan", "tou", "ding", "ni"}, {"zhi", "che", "cheng", "niang"},
   {"jing", "qing", "cong", "xin", "xie"}, {"zhuang", "chu", "chong", "shan"},
   {"zhang", "chang", "changz", "shu", "chuan"}, {"jian", "xi", "qun", "yi"},
   {"bang", "pang", "bing", "ming"}, {"fei", "fu", "feng", "weim"},
   {"ying", "xiao", "xia", "yu", "yun"}, {"lai", "ri"}}

\* phonology_parser.compare_phonology(char_a, char_b, data)
compare_phonology(char_a, char_b, d) ==
  LET found_a == char_a \in DOMAIN d
      found_b == char_b \in DOMAIN d
      both_pan == found_a /\ found_b /\ d[char_a].pan.present
                    /\ d[char_b].pan.present
      yunbu_a == d[char_a].pan.yunbu
      yunbu_b == d[char_b].pan.yunbu
      shengmu_a == d[char_a].pan.shengmu
      shengmu_b == d[char_b].pan.shengmu
      yunbu_same == both_pan /\ yunbu_a # "" /\ yunbu_b # "" /\ yunbu_a = yunbu_b
      shengmu_near ==
        /\ both_pan
        /\ shengmu_a # ""
        /\ shengmu_b # ""
        /\ \/ \E group \in similar_shengmu :
                shengmu_a \in group /\ shengmu_b \in group
           \/ shengmu_a = shengmu_b
  IN [kind |-> "compare", char_a |-> char_a, char_b |-> char_b,
      found_a |-> found_a, found_b |-> found_b,
      yin_jin |-> yunbu_same \/ shengmu_near,
      yunbu_xiangtong |-> yunbu_same,
      shengmu_xiangjin |-> shengmu_near,
      error |-> ~(found_a /\ found_b)]

NoOut == [kind |-> "none"]

-----------------------------------------------------------------------------
(* Input sentences: target, separator, formula keyword, gloss, ending *)

MaxTarget == 1

SeqsUpTo(S, n) == UNION {[1..k -> S] : k \in 0..n}

NoResult == PatternResult("none", <<>>, <<>>, "none", "none", FALSE)

-----------------------------------------------------------------------------
(* Corpus offset index: src/data/dyhdc_index_builder.py                     *)
(*                                                                         *)
(* The corpus file is a sequence of bytes.  One byte is one string:        *)
(*   "{" "}" "[" "]"   the JSON brackets                                   *)
(*   key               the member name "headword" with its colon           *)
(*   q                 the double quote                                    *)
(*   5                 a digit,  x  a letter,  hash  the character #       *)
(*   sp, CR, LF        space, carriage return, line feed                   *)
(*   chong1 chong2 chong3   the three UTF-8 bytes of 崇 (zhong1.. of 终)    *)
(* Decoded text is a sequence of characters: the ASCII bytes stand for     *)
(* themselves, chong and zhong are the two ideographs.                     *)

Utf8 ==
  [chong |-> <<"chong1", "chong2", "chong3">>,
   zhong |-> <<"zhong1", "zhong2", "zhong3">>]

\* str.encode('utf-8')
RECURSIVE Encode(_)
Encode(text) ==
  IF text = <<>> THEN <<>>
  ELSE (IF Head(text) \in DOMAIN Utf8 THEN Utf8[Head(text)] ELSE <<Head(text)>>)
         \o Encode(Tail(text))

\* bytes.decode('utf-8'): UnicodeDecodeError when a character is cut
RECURSIVE Decode(_)
Decode(bytes) ==
  IF bytes = <<>> THEN [ok |-> TRUE, text |-> <<>>]
  ELSE IF Head(bytes) \in {"{", "}", "[", "]", "key", "q", "5", "x", "hash",
                           "sp", "CR", "LF"}
       THEN LET rest == Decode(Tail(bytes))
            IN [ok |-> rest.ok, text |-> <<Head(bytes)>> \o rest.text]
       ELSE IF \E c \in DOMAIN Utf8 :
                 /\ Len(bytes) >= 3
                 /\ SubSeq(bytes, 1, 3) = Utf8[c]
            THEN LET c == CHOOSE d \in DOMAIN Utf8 : SubSeq(bytes, 1, 3) = Utf8[d]
                     rest == Decode(SubSeq(bytes, 4, Len(bytes)))
                 IN [ok |-> rest.ok, text |-> <<c>> \o rest.text]
            ELSE [ok |-> FALSE, text |-> <<>>]

\* str.strip() on a decoded line
LineSpace == {"sp", "CR", "LF"}

RECURSIVE LStripLine(_)
LStripLine(t) ==
  IF t # <<>> /\ Head(t) \in LineSpace THEN LStripLine(Tail(t)) ELSE t

RECURSIVE RStripLine(_)
RStripLine(t) ==
  IF t # <<>> /\ t[Len(t)] \in LineSpace
  THEN RStripLine(SubSeq(t, 1, Len(t) - 1)) ELSE t

StripLine(t) == RStripLine(LStripLine(t))

\* JSON whitespace between tokens is dropped; inside a string it stays
RECURSIVE Compact(_, _)
Compact(t, inString) ==
  IF t = <<>> THEN <<>>
  ELSE IF Head(t) = "q" THEN <<"q">> \o Compact(Tail(t), ~inString)
       ELSE IF Head(t) \in LineSpace /\ ~inString THEN Compact(Tail(t), inString)
            ELSE <<Head(t)>> \o Compact(Tail(t), inString)

\* the values json.loads can return on this alphabet
JsonValue(type, hwtype, headword) ==
  [type |-> type, hwtype |-> hwtype, headword |-> headword]

JSONDecodeError == JsonValue("JSONDecodeError", "absent", <<>>)

\* json.loads(text): an array, a number, an object without headword, an
\* object whose headword is a number, an object whose headword is a string;
\* control characters are not allowed inside a string
JsonLoads(text) ==
  LET c == Compact(text, FALSE)
      n == Len(c)
  IN IF c = <<"[", "]">> THEN JsonValue("array", "absent", <<>>)
     ELSE IF c = <<"5">> THEN JsonValue("number", "absent", <<>>)
     ELSE IF c = <<"{", "}">> THEN JsonValue("object", "absent", <<>>)
     ELSE IF c = <<"{", "key", "5", "}">> THEN JsonValue("object", "number", <<>>)
     ELSE IF /\ n >= 5
             /\ SubSeq(c, 1, 3) = <<"{", "key", "q">>
             /\ SubSeq(c, n - 1, n) = <<"q", "}">>
             /\ \A i \in 4..(n - 2) : c[i] \notin {"q", "CR", "LF"}
          THEN JsonValue("object", "string", SubSeq(c, 4, n - 2))
          ELSE JSONDecodeError

\* f.readline() of a file opened in text mode with the default newline=None:
\* a line ends at LF, at CR LF or at a lone CR, and the terminator is handed
\* over as a single LF.  The result is the line and the position after it.
RECURSIVE readline(_, _)
readline(bytes, pos) ==
  IF pos > Len(bytes) THEN [line |-> <<>>, next |-> pos]
  ELSE IF bytes[pos] = "LF" THEN [line |-> <<"LF">>, next |-> pos + 1]
  ELSE IF bytes[pos] = "CR"
       THEN [line |-> <<"LF">>,
             next |-> IF pos < Len(bytes) /\ bytes[pos + 1] = "LF"
                      THEN pos + 2 ELSE pos + 1]
       ELSE LET rest == readline(bytes, pos + 1)
            IN [line |-> <<bytes[pos]>> \o rest.line, next |-> rest.next]

\* self.index = {}: a dict from first characters to lists of entries
EmptyIndex == [c \in {} |-> <<>>]

IndexEntry(headword, offset, length) ==
  [headword |-> headword, offset |-> offset, length |-> length]

\* the while loop of build_index from file position pos on, with the byte
\* cursor at offset and self.index = index; AttributeError leaves the loop
RECURSIVE BuildLoop(_, _, _, _)
BuildLoop(bytes, pos, offset, index) ==
  LET r == readline(bytes, pos)
      line == Decode(r.line).text
      line_length == Len(Encode(line))
      entry == JsonLoads(StripLine(line))
      headword == entry.headword
  IN IF r.line = <<>> THEN [kind |-> "ok", index |-> index]
     ELSE IF entry = JSONDecodeError
          THEN BuildLoop(bytes, r.next, offset + line_length, index)
     ELSE IF entry.type # "object" \/ entry.hwtype = "number"
          THEN [kind |-> "AttributeError", index |-> index]
     ELSE IF headword # <<>> /\ headword[1] # "hash"
          THEN BuildLoop(bytes, r.next, offset + line_length,
                 IF headword[1] \in DOMAIN index
                 THEN [index EXCEPT ![headword[1]] =
                         Append(@, IndexEntry(headword, offset, line_length))]
                 ELSE index @@ (headword[1] :>
                                  <<IndexEntry(headword, offset, line_length)>>))
          ELSE BuildLoop(bytes, r.next, offset + line_length, index)

\* _save_index(output_path): the persisted file {"stats": ..., "index": ...}
RECURSIVE SumLen(_, _)
SumLen(index, S) ==
  IF S = {} THEN 0
  ELSE LET c == CHOOSE d \in S : TRUE
       IN Len(index[c]) + SumLen(index, S \ {c})

NoFile == [exists |-> FALSE, total_chars |-> 0, total_entries |-> 0,
           index |-> EmptyIndex]

_save_index(index) ==
  [exists |-> TRUE,
   total_chars |-> Cardinality(DOMAIN index),
   total_entries |-> SumLen(index, DOMAIN index),
   index |-> index]

\* build_index(output_path) when the corpus file jsonl_path does not exist,
\* of a builder whose self.index is index, with the persisted index file as
\* found
build_index_always_saves(corpus, index, persisted) ==
  [kind |-> "file_missing", returned |-> EmptyIndex, index |-> index,
   file |-> _save_index(index)]

build_index_missing(corpus, index, persisted) ==
  [kind |-> "file_missing", returned |-> EmptyIndex, index |-> index,
   file |-> persisted]

\* DYHDCIndexLoader.load_index on the loader state ld
load_index(ld, persisted) ==
  IF ld.loaded THEN ld
  ELSE IF persisted.exists THEN [index |-> persisted.index, loaded |-> TRUE]
       ELSE ld

\* the loop without the test that skips compound headwords
RECURSIVE QueryLoopCompounds(_, _)
QueryLoopCompounds(bytes, entries_info) ==
  IF entries_info = <<>> THEN <<>>
  ELSE LET info == Head(entries_info)
           last == IF info.offset + info.length < Len(bytes)
                   THEN info.offset + info.length ELSE Len(bytes)
           line == Decode(SubSeq(bytes, info.offset + 1, last))
           entry == JsonLoads(StripLine(line.text))
           rest == QueryLoopCompounds(bytes, Tail(entries_info))
       IN IF line.ok /\ entry # JSONDecodeError THEN <<entry>> \o rest ELSE rest

\* the for loop of DYHDCIndexLoader.query over entries_info
RECURSIVE QueryLoop(_, _)
QueryLoop(bytes, entries_info) ==
  IF entries_info = <<>> THEN <<>>
  ELSE LET info == Head(entries_info)
           \* f.seek(offset); f.read(length) on the corpus in binary mode
           last == IF info.offset + info.length < Len(bytes)
                   THEN info.offset + info.length ELSE Len(bytes)
           line == Decode(SubSeq(bytes, info.offset + 1, last))
           entry == JsonLoads(StripLine(line.text))
           rest == QueryLoop(bytes, Tail(entries_info))
       IN IF Len(info.headword) = 1 /\ line.ok /\ entry # JSONDecodeError
          THEN <<entry>> \o rest
          ELSE rest

Served(kind, message, char, records) ==
  [kind |-> kind, message |-> message, char |-> char, records |-> records]

NoServed == Served("none", "none", "none", <<>>)

NewLoader == [index |-> EmptyIndex, loaded |-> FALSE]

\* no corpus, no index file, a new builder, a new loader, a new TextualTool
IndexIdle ==
  /\ jsonl = [exists |-> FALSE, bytes |-> <<>>]
  /\ index_file = NoFile
  /\ builder = [kind |-> "none", returned |-> EmptyIndex, index |-> EmptyIndex,
                builds |-> 0]
  /\ loader = NewLoader
  /\ tool_loaded = FALSE
  /\ served = NoServed

\* the threads that call DYHDCIndexLoader.query on one loader
NumCallers == 2

Callers == 1..NumCallers

\* a thread outside query
NoReader ==
  [pc |-> "idle", char |-> "none", todo |-> <<>>, results |-> <<>>,
   kind |-> "none"]

\* no thread is inside query and no file object is open; a file object of
\* open(self.jsonl_path, 'rb') is closed, or open at position pos
LookupIdle ==
  /\ readers = [c \in Callers |-> NoReader]
  /\ handles = [c \in Callers |-> [open |-> FALSE, pos |-> 0]]

-----------------------------------------------------------------------------
(* Classification agent: src/agent/xungu_agent.py                           *)
(*                                                                         *)
(* The output of the collaborator (the language model behind the executor) *)
(* is a text, written as a sequence of words, together with the brace      *)
(* blocks that _extract_json finds in it.  Words:                          *)
(*   jiajie 假借  shuoming 说明  yuyi 语义  jieshi 解释  buqueding 不确定      *)
(*   gao 高  zhong 中  di 低  zhixin 置信  yi 义  yin 音  jin 近  yuan 远      *)
(*   you 有  wu 无  zuozheng 佐证  zhichi 支持  geshi 格式  du 读  wei 为       *)
(*   weineng shengcheng youxiao shuchu 未能生成有效输出                       *)
(*   fenxi guocheng chuxian cuowu 分析 过程 出现 错误                         *)
(*   0.85  85%  150%  1%  0.85%  1.5   numbers as written                   *)
(* Labels: jiajieshuoming 假借说明, yuyijieshi 语义解释, buqueding 不确定,     *)
(* tongjia 通假.  A confidence is a number of hundredths: 85 is 0.85.       *)

\* t in s
Within(t, s) ==
  \E p \in 0..(Len(s) - Len(t)) : SubSeq(s, p + 1, p + Len(t)) = t

\* what re.findall(r'0\.\d+|0\.\d+%|\d+%') matches in a written number and
\* float() of the match without its % sign, in hundredths; 1.5 has no match
confidence_pattern ==
  [w \in {"0.85", "85%", "150%", "1%", "0.85%"} |->
     CASE w = "0.85" -> 85
       [] w = "85%" -> 8500
       [] w = "150%" -> 15000
       [] w = "1%" -> 100
       [] w = "0.85%" -> 85]

\* _extract_confidence(text): the first match decides, clamped to [0, 1]
_extract_confidence(text) ==
  LET matches == {p \in 1..Len(text) : text[p] \in DOMAIN confidence_pattern}
      first == CHOOSE p \in matches : \A q \in matches : p <= q
      conf == confidence_pattern[text[first]]
      scaled == IF conf > 100 THEN conf \div 100 ELSE conf
  IN IF matches # {}
     THEN IF scaled < 0 THEN 0 ELSE IF scaled > 100 THEN 100 ELSE scaled
     ELSE IF Within(<<"gao">>, text) /\ Within(<<"zhixin">>, text) THEN 80
     ELSE IF Within(<<"zhong">>, text) /\ Within(<<"zhixin">>, text) THEN 60
     ELSE IF Within(<<"di">>, text) /\ Within(<<"zhixin">>, text) THEN 40
     ELSE 50

\* _extract_classification(text)
_extract_classification(text) ==
  IF Within(<<"jiajie", "shuoming">>, text) \/ Within(<<"jiajie">>, text)
  THEN "jiajieshuoming"
  ELSE IF Within(<<"yuyi", "jieshi">>, text) \/ Within(<<"yuyi">>, text)
       THEN "yuyijieshi"
       ELSE "buqueding"

\* the empty dict
EmptyDict == [k \in {} |-> <<>>]

\* _parse_step_result(step_text)
_parse_step_result(step_text) ==
  IF step_text = <<>> THEN EmptyDict
  ELSE LET parsed == ("fenxi" :> step_text)
           yi_jin == Within(<<"yi", "jin">>, step_text)
           yi_yuan == Within(<<"yi", "yuan">>, step_text)
           yin_jin == Within(<<"yin", "jin">>, step_text)
           yin_yuan == Within(<<"yin", "yuan">>, step_text)
           you == Within(<<"you", "zuozheng">>, step_text)
           wu == Within(<<"wu", "zuozheng">>, step_text)
           jiajie == Within(<<"zhichi", "jiajie">>, step_text)
           yuyi == Within(<<"zhichi", "yuyi">>, step_text)
       IN IF yi_jin \/ yi_yuan
          THEN parsed @@ ("jielun" :> IF yi_jin THEN <<"yi", "jin">>
                                      ELSE <<"yi", "yuan">>)
          ELSE IF yin_jin \/ yin_yuan
          THEN parsed @@ ("jielun" :> IF yin_jin THEN <<"yin", "jin">>
                                      ELSE <<"yin", "yuan">>)
          ELSE IF you \/ wu
          THEN parsed @@ ("jielun" :> IF you THEN <<"you", "zuozheng">>
                                      ELSE <<"wu", "zuozheng">>)
          ELSE IF jiajie \/ yuyi
          THEN parsed @@ ("jielun" :> IF jiajie THEN <<"zhichi", "jiajie">>
                                      ELSE <<"zhichi", "yuyi">>)
          ELSE parsed

StepNames == {"step1_semantic", "step2_phonetic", "step3_textual",
              "step4_pattern", "step5_context"}

NoSteps == [s \in StepNames |-> <<>>]

\* A brace block of the output is not JSON ("invalid"), the empty object
\* ("empty") or an object ("object") with the members json; a member is
\* "absent" when the object does not have it.  The confidence member is a
\* number, a numeral in a string, another string ("word") or null.
NoJson ==
  [classification |-> "absent", confidence |-> [t |-> "absent", v |-> 0],
   reasoning |-> "absent", steps |-> NoSteps, final_judgment |-> <<>>]

\* _extract_json(text): the first block that json.loads accepts, or None
RECURSIVE _extract_json(_)
_extract_json(blocks) ==
  IF blocks = <<>> THEN [kind |-> "None", json |-> NoJson]
  ELSE IF Head(blocks).kind = "invalid" THEN _extract_json(Tail(blocks))
       ELSE Head(blocks)

ReasonLimit == 200

AnalysisResult(status, char_a, char_b, classification, confidence, steps, final_reasoning) ==
  [status |-> status, char_a |-> char_a, char_b |-> char_b,
   classification |-> classification, confidence |-> confidence,
   step1_semantic |-> steps["step1_semantic"],
   step2_phonetic |-> steps["step2_phonetic"],
   step3_textual |-> steps["step3_textual"],
   step4_pattern |-> steps["step4_pattern"],
   step5_context |-> steps["step5_context"],
   final_reasoning |-> final_reasoning]

NoDicts == [s \in StepNames |-> EmptyDict]

Raised(error) == AnalysisResult(error, <<>>, <<>>, "", 0, NoDicts, <<>>)

NoAnalysis == AnalysisResult("none", <<>>, <<>>, "", 0, NoDicts, <<>>)

\* _parse_result(xungu_sentence, context, source, output)
_parse_result(cc, xungu_sentence, output) ==
  LET pattern_result == Identify(cc, xungu_sentence)
      json_data == _extract_json(output.blocks)
      fields == json_data.json
      \* float(json_data.get("confidence", 0.5)): the number, or the error
      confidence ==
        CASE fields.confidence.t = "absent" -> [ok |-> TRUE, v |-> 50]
          [] fields.confidence.t \in {"number", "numeral"}
               -> [ok |-> TRUE, v |-> fields.confidence.v]
          [] fields.confidence.t = "word"
               -> [ok |-> FALSE, error |-> "ValueError"]
          [] fields.confidence.t = "null"
               -> [ok |-> FALSE, error |-> "TypeError"]
  IN IF json_data.kind = "object"
     THEN IF ~confidence.ok THEN Raised(confidence.error)
          ELSE IF fields.reasoning \in {"string", "null"} THEN Raised("AttributeError")
          ELSE AnalysisResult("ok", pattern_result.char_a, pattern_result.char_b,
                 IF fields.classification = "absent" THEN "buqueding"
                 ELSE fields.classification,
                 confidence.v,
                 [s \in StepNames |->
                    _parse_step_result(IF fields.reasoning = "absent" THEN <<>>
                                       ELSE fields.steps[s])],
                 fields.final_judgment)
     ELSE AnalysisResult("ok", pattern_result.char_a, pattern_result.char_b,
            _extract_classification(output.text),
            _extract_confidence(output.text), NoDicts,
            SubSeq(output.text, 1,
                   IF Len(output.text) < ReasonLimit THEN Len(output.text)
                   ELSE ReasonLimit))

-----------------------------------------------------------------------------
(* Evidence aggregator (spec section 4.4).  Categories of the formula      *)
(* signal are the implied types of the rule table: jiajie PhoneticLoan,    *)
(* keneng_jiajie PossiblePhoneticLoan, yisheng_tongyi SoundCarriesMeaning, *)
(* yuyi_jieshi SemanticGloss, buqueding Uncertain.  The classification of  *)
(* the verdict is jiajieshuoming (PhoneticLoan) or yuyijieshi              *)
(* (SemanticGloss).                                                        *)

Cascade(step, classification, confidence, rationale) ==
  [step |-> step, classification |-> classification,
   confidence |-> confidence, rationale |-> rationale]

NoCascade == Cascade(0, "unset", 0, <<>>)

MaxOf(a, b) == IF a >= b THEN a ELSE b

\* the category a formula signal stands for in a verdict
Implied(category) ==
  IF category \in {"jiajie", "keneng_jiajie"} THEN "jiajieshuoming"
  ELSE "yuyijieshi"

\* rule 3: close meaning and close sound
Rule3Assigns(b, c) ==
  IF /\ b.semantic = "close" /\ b.phonological = "close"
     /\ b.formula.category = "yisheng_tongyi"
  THEN Cascade(4, "yuyijieshi", 85, Append(c.rationale, "rule3_formula"))
  ELSE IF /\ b.semantic = "close" /\ b.phonological = "close"
          /\ b.context = "supports_semantic"
       THEN Cascade(4, "yuyijieshi", 80, Append(c.rationale, "rule3_context"))
       ELSE Cascade(4, c.classification, c.confidence, c.rationale)

Rule3(b, c) ==
  IF /\ b.semantic = "close" /\ b.phonological = "close"
     /\ b.formula.category = "yisheng_tongyi"
  THEN Cascade(4, "yuyijieshi", MaxOf(c.confidence, 85),
               Append(c.rationale, "rule3_formula"))
  ELSE IF /\ b.semantic = "close" /\ b.phonological = "close"
          /\ b.context = "supports_semantic"
       THEN Cascade(4, "yuyijieshi", MaxOf(c.confidence, 80),
                    Append(c.rationale, "rule3_context"))
       ELSE Cascade(4, c.classification, c.confidence, c.rationale)

NoBundle ==
  [semantic |-> "none", phonological |-> "none", textual |-> FALSE,
   formula |-> [category |-> "buqueding", directJudge |-> FALSE],
   context |-> "none"]

\* no bundle under evaluation
AggregatorIdle ==
  /\ bundle = NoBundle
  /\ cascade = NoCascade

\* XunguAgent.__init__: no analysis requested
\* no analysis is running
NoCall ==
  [xungu_sentence |-> <<>>, evidence |-> NoBundle,
   output |-> [text |-> <<>>, blocks |-> <<>>]]

AgentIdle ==
  /\ call = NoCall
  /\ analysis = NoAnalysis

\* no SimpleAgentExecutor has been constructed
ExecutorIdle == executor = [pc |-> "none"]

-----------------------------------------------------------------------------
(* State machine of the formula recogniser *)

\* PhonologyTool.__init__: nothing loaded
PhonologyIdle ==
  /\ _index = NoData
  /\ _loaded = FALSE
  /\ reads = 0
  /\ out = NoOut

\* PatternTool.__init__: no sentence identified
PatternIdle ==
  /\ patterns = CompiledRules
  /\ sentence = <<>>
  /\ result = NoResult

InitPattern ==
  /\ opencc \in BOOLEAN
  /\ PatternIdle
  /\ file = "absent"
  /\ data = NoData
  /\ PhonologyIdle
  /\ IndexIdle
  /\ AgentIdle
  /\ AggregatorIdle
  /\ LookupIdle
  /\ ExecutorIdle

\* the sentences handed to identify: a target, a separator, a formula
\* keyword, a gloss and an ending, each of which may be missing
IdentifySentences ==
  LET Targets == SeqsUpTo({"chong", "a"}, MaxTarget)
      Separators ==
        {<<>>, <<"fcomma">>, <<"comma">>, <<"fcomma", "sp">>, <<"dun">>,
         <<"zhe">>, <<"yu">>}
      Keywords ==
        {<<>>, <<"du", "wei">>, <<"duT", "weiT">>, <<"du", "yue">>,
         <<"du", "dang", "wei">>, <<"dang", "wei">>, <<"dang", "zuo">>,
         <<"jia", "jie", "zi">>, <<"jie", "wei">>, <<"du", "ruo">>,
         <<"du", "ru">>, <<"huo", "zuo">>, <<"sheng", "jin">>,
         <<"zhi", "yan">>, <<"zhi", "wei", "yan">>, <<"you">>,
         <<"you", "yan">>, <<"weiz", "zhi">>, <<"suo", "yi">>, <<"ji">>}
      Glosses == {<<>>, <<"zhongT">>, <<"lq">>, <<"lq", "zhongT">>}
      Endings ==
        {<<>>, <<"ye">>, <<"period">>, <<"ye", "period">>, <<"ye", "sp">>,
         <<"mao">>, <<"zhi", "mao">>, <<"tong">>, <<"gu", "zi", "tong">>}
  IN {t \o sp \o k \o g \o e :
        t \in Targets, sp \in Separators, k \in Keywords, g \in Glosses,
        e \in Endings}

\* identify(sentence) -> PatternResult
identify ==
  /\ result = NoResult
  /\ \E s \in IdentifySentences :
       /\ sentence' = s
       /\ result' = Identify(opencc, s)
  /\ UNCHANGED <<opencc, executor, lookupVars, patterns, phonologyVars,
                 indexVars, agentVars>>

\* the caller takes the result; the tool keeps nothing of the call
release ==
  /\ result # NoResult
  /\ sentence' = <<>>
  /\ result' = NoResult
  /\ UNCHANGED <<opencc, executor, lookupVars, patterns, phonologyVars,
                 indexVars, agentVars>>

NextPattern == identify \/ release

SpecPattern == InitPattern /\ [][NextPattern]_vars

-----------------------------------------------------------------------------
(* State machine of the phonology tool *)

MaxReads == 2

QueryChars == {"chong", "zhong", "zhongT"}

\* contents of the unified phonology file: 崇 alone, or 崇 and 終 (or 终)
DataFiles ==
  LET tuN == <<"*", "t", "u", "N">>
      tjuN == <<"*", "t", "j", "u", "N">>
      kjuN == <<"*", "[", "k", "]", "j", "u", "N">>
      FirstEntries ==
        {Entry(pan, bs) :
           pan \in {NoPan, Pan("duan", "dong", tuN), Pan("duan", "", tuN)},
           bs \in {NoBs, Bs(tjuN), Bs(<<>>)}}
      SecondEntries ==
        {Entry(pan, bs) :
           pan \in {NoPan}
                     \cup {Pan(sh, yb, oc) : sh \in {"duan", "ding", "zhang"},
                                              yb \in {"dong", "yang", ""},
                                              oc \in {tuN, kjuN}},
           bs \in {NoBs, Bs(tjuN), Bs(<<>>)}}
  IN {[c \in {"chong"} |-> e1] : e1 \in FirstEntries}
       \cup {[c \in {"chong", k} |-> IF c = "chong" THEN e1 ELSE e2] :
               k \in {"zhongT", "zhong"}, e1 \in FirstEntries,
               e2 \in SecondEntries}

InitPhonology ==
  /\ opencc \in BOOLEAN
  /\ PatternIdle
  /\ file \in {"present", "absent", "unreadable"}
  /\ data \in (IF file = "present" THEN DataFiles ELSE {NoData})
  /\ PhonologyIdle
  /\ IndexIdle
  /\ AgentIdle
  /\ AggregatorIdle
  /\ LookupIdle
  /\ ExecutorIdle

\* PhonologyTool.load on the tool state st
Load(st) ==
  IF st.loaded THEN st
  ELSE IF file = "present"
       THEN [index |-> data, loaded |-> TRUE, reads |-> st.reads + 1]
       ELSE IF file = "unreadable"
            THEN [index |-> NoData, loaded |-> FALSE, reads |-> st.reads + 1]
            ELSE [index |-> _get_mock_data, loaded |-> TRUE, reads |-> st.reads]

Tool == [index |-> _index, loaded |-> _loaded, reads |-> reads]

SetTool(st) ==
  /\ _index' = st.index
  /\ _loaded' = st.loaded
  /\ reads' = st.reads

\* query(char) -> PhonologyInfo
query ==
  /\ out = NoOut
  /\ Load(Tool).reads <= MaxReads
  /\ \E char \in QueryChars :
       out' = Query(opencc, Load(Tool).index, char)
  /\ SetTool(Load(Tool))
  /\ UNCHANGED <<opencc, executor, lookupVars, patternVars, file, data,
                 indexVars, agentVars>>

\* is_phonetically_close(char1, char2): two queries, then the verdict
is_phonetically_close ==
  /\ out = NoOut
  /\ Load(Load(Tool)).reads <= MaxReads
  /\ \E char1, char2 \in QueryChars :
       out' = IsPhoneticallyClose(opencc, Load(Load(Tool)).index, char1, char2)
  /\ SetTool(Load(Load(Tool)))
  /\ UNCHANGED <<opencc, executor, lookupVars, patternVars, file, data,
                 indexVars, agentVars>>

\* compare_phonology(char_a, char_b, data) on the unified data of the file
compare ==
  /\ out = NoOut
  /\ file = "present"
  /\ \E char_a, char_b \in QueryChars :
       out' = compare_phonology(char_a, char_b, data)
  /\ UNCHANGED <<opencc, executor, lookupVars, patternVars, file, data, _index,
                 _loaded, reads, indexVars, agentVars>>

\* the caller takes the result
done ==
  /\ out # NoOut
  /\ out' = NoOut
  /\ UNCHANGED <<opencc, executor, lookupVars, patternVars, file, data, _index,
                 _loaded, reads, indexVars, agentVars>>

NextPhonology == query \/ is_phonetically_close \/ compare \/ done

SpecPhonology == InitPhonology /\ [][NextPhonology]_vars

-----------------------------------------------------------------------------
(* State machine of the corpus offset index *)

MaxSkipped == 9

MaxLines == 2

MaxBuilds == 2

\* a corpus line {"headword": "<headword>"}
Rec(headword) == <<"{", "key", "q">> \o Encode(headword) \o <<"q", "}">>

\* the bytes of a file whose lines end with term, the last one with last
RECURSIVE Join(_, _, _)
Join(lines, term, last) ==
  IF lines = <<>> THEN <<>>
  ELSE IF Len(lines) = 1 THEN Head(lines) \o last
       ELSE Head(lines) \o term \o Join(Tail(lines), term, last)

\* a corpus: some empty lines, then up to MaxLines lines.  The lines are
\* single-character entries, a compound, a metadata line, an empty
\* headword, a line that is not JSON, an empty line, JSON that is not an
\* object, an object whose headword is a number.
Corpora ==
  LET Contents ==
        {Rec(<<"chong">>), Rec(<<"zhong">>), Rec(<<"chong", "zhong">>),
         Rec(<<"hash", "chong">>), Rec(<<>>), <<"x">>, <<>>,
         <<"[", "]">>, <<"{", "key", "5", "}">>}
      Terminators == {<<"LF">>, <<"CR", "LF">>, <<"CR">>}
  IN {Join([i \in 1..n |-> <<>>] \o tail, term, last) :
        n \in 0..MaxSkipped, tail \in SeqsUpTo(Contents, MaxLines),
        term \in Terminators, last \in {<<>>, <<"LF">>}}

\* an index file left by an earlier build, of another corpus
StaleFile ==
  _save_index(BuildLoop(Rec(<<"zhong">>) \o <<"LF">>, 1, 0, EmptyIndex).index)

InitIndex ==
  /\ opencc = FALSE
  /\ PatternIdle
  /\ file = "absent"
  /\ data = NoData
  /\ PhonologyIdle
  /\ jsonl \in {[exists |-> FALSE, bytes |-> <<>>]}
               \cup {[exists |-> TRUE, bytes |-> b] : b \in Corpora}
  /\ index_file \in {NoFile, StaleFile}
  /\ builder = [kind |-> "none", returned |-> EmptyIndex, index |-> EmptyIndex,
                builds |-> 0]
  /\ loader = NewLoader
  /\ tool_loaded = FALSE
  /\ served = NoServed
  /\ AgentIdle
  /\ AggregatorIdle
  /\ LookupIdle
  /\ ExecutorIdle

\* DYHDCIndexBuilder.build_index(output_path): the outcome, the value
\* returned, self.index and the persisted file after
build_index ==
  /\ builder.builds < MaxBuilds
  /\ served = NoServed
  /\ LET loop == BuildLoop(jsonl.bytes, 1, 0, builder.index)
         b == IF ~jsonl.exists
              THEN build_index_missing(jsonl, builder.index, index_file)
              ELSE IF loop.kind = "ok"
                   THEN [kind |-> "ok", returned |-> loop.index,
                         index |-> loop.index, file |-> _save_index(loop.index)]
                   ELSE [kind |-> loop.kind, returned |-> EmptyIndex,
                         index |-> loop.index, file |-> index_file]
     IN /\ builder' = [kind |-> b.kind, returned |-> b.returned,
                       index |-> b.index, builds |-> builder.builds + 1]
        /\ index_file' = b.file
  /\ UNCHANGED <<opencc, executor, lookupVars, patternVars, phonologyVars,
                 jsonl, loader, tool_loaded, served, agentVars>>

\* DYHDCIndexLoader.query(char)
loader_query ==
  /\ served = NoServed
  /\ \E char \in {"chong", "zhong", "hash"} :
       served' =
         IF char \notin DOMAIN load_index(loader, index_file).index
         THEN Served("records", "none", char, <<>>)
         ELSE IF ~jsonl.exists
              THEN Served("FileNotFoundError", "no such file", char, <<>>)
              ELSE Served("records", "none", char,
                          QueryLoop(jsonl.bytes,
                                    load_index(loader, index_file).index[char]))
  /\ loader' = load_index(loader, index_file)
  /\ UNCHANGED <<opencc, executor, lookupVars, patternVars, phonologyVars,
                 jsonl, index_file, builder, tool_loaded, agentVars>>

\* TextualTool.load()
textual_load ==
  /\ served = NoServed
  /\ IF tool_loaded
     THEN /\ served' = Served("loaded", "none", "none", <<>>)
          /\ UNCHANGED <<tool_loaded, loader>>
     ELSE IF ~index_file.exists
          THEN /\ served' = Served("FileNotFoundError",
                                   "index missing, run build_dyhdc_index",
                                   "none", <<>>)
               /\ UNCHANGED <<tool_loaded, loader>>
          ELSE /\ tool_loaded' = TRUE
               /\ loader' = load_index(NewLoader, index_file)
               /\ served' = Served("loaded", "none", "none", <<>>)
  /\ UNCHANGED <<opencc, executor, lookupVars, patternVars, phonologyVars,
                 jsonl, index_file, builder, agentVars>>

\* the caller takes the records, or handles the exception
taken ==
  /\ served # NoServed
  /\ served' = NoServed
  /\ UNCHANGED <<opencc, executor, lookupVars, patternVars, phonologyVars,
                 jsonl, index_file, builder, loader, tool_loaded, agentVars>>

NextIndex == build_index \/ loader_query \/ textual_load \/ taken

SpecIndex == InitIndex /\ [][NextIndex]_vars

-----------------------------------------------------------------------------
(* State machine of concurrent lookups: several threads inside             *)
(* DYHDCIndexLoader.query of one loader, over one corpus file.  A step is  *)
(* one file operation of one thread.                                       *)

\* one file object for all threads
SharedHandle(c) == 1

\* the file object a thread's query works on: the one it opened itself
HandleOf(c) == c


\* a corpus of two lines and the index built from it
LookupCorpora ==
  LET Contents == {Rec(<<"chong">>), Rec(<<"zhong">>),
                   Rec(<<"chong", "zhong">>), <<"x">>}
  IN {Join(<<a, b>>, <<"LF">>, <<"LF">>) : a \in Contents, b \in Contents}

InitLookup ==
  /\ opencc = FALSE
  /\ PatternIdle
  /\ file = "absent"
  /\ data = NoData
  /\ PhonologyIdle
  /\ jsonl \in {[exists |-> TRUE, bytes |-> b] : b \in LookupCorpora}
  /\ index_file \in {_save_index(BuildLoop(jsonl.bytes, 1, 0, EmptyIndex).index),
                     StaleFile}
  /\ builder = [kind |-> "none", returned |-> EmptyIndex, index |-> EmptyIndex,
                builds |-> 0]
  /\ loader = NewLoader
  /\ tool_loaded = FALSE
  /\ served = NoServed
  /\ AgentIdle
  /\ AggregatorIdle
  /\ LookupIdle
  /\ ExecutorIdle

\* query(char) up to and including open(self.jsonl_path, 'rb')
query_open(c) ==
  /\ readers[c].pc = "idle"
  /\ \E char \in {"chong", "zhong", "hash"} :
       LET index == load_index(loader, index_file).index
       IN IF char \notin DOMAIN index
          THEN /\ readers' = [readers EXCEPT ![c] =
                    [pc |-> "done", char |-> char, todo |-> <<>>,
                     results |-> <<>>, kind |-> "records"]]
               /\ UNCHANGED handles
          ELSE /\ readers' = [readers EXCEPT ![c] =
                    [pc |-> "for", char |-> char, todo |-> index[char],
                     results |-> <<>>, kind |-> "none"]]
               /\ handles' = [handles EXCEPT ![HandleOf(c)] = [open |-> TRUE, pos |-> 0]]
  /\ loader' = load_index(loader, index_file)
  /\ UNCHANGED <<opencc, executor, patternVars, phonologyVars, jsonl,
                 index_file, builder, tool_loaded, served, agentVars>>

\* the for loop goes on to the next entry with a one-character headword
\* and positions the file: f.seek(info["offset"]); a closed file object
\* raises ValueError
query_seek(c) ==
  /\ readers[c].pc = "for"
  /\ \E k \in 1..Len(readers[c].todo) :
       /\ Len(readers[c].todo[k].headword) = 1
       /\ \A j \in 1..(k - 1) : Len(readers[c].todo[j].headword) # 1
       /\ IF handles[HandleOf(c)].open
          THEN /\ readers' = [readers EXCEPT
                    ![c].pc = "read",
                    ![c].todo = SubSeq(readers[c].todo, k, Len(readers[c].todo))]
               /\ handles' = [handles EXCEPT
                    ![HandleOf(c)] = [open |-> TRUE, pos |-> readers[c].todo[k].offset]]
          ELSE /\ readers' = [readers EXCEPT ![c].pc = "done",
                                             ![c].todo = <<>>,
                                             ![c].results = <<>>,
                                             ![c].kind = "ValueError"]
               /\ UNCHANGED handles
  /\ UNCHANGED <<opencc, executor, patternVars, phonologyVars, indexVars,
                 agentVars>>

\* f.read(info["length"]) at the position of the file object, then the
\* decoding and the append; a closed file object raises ValueError
query_read(c) ==
  /\ readers[c].pc = "read"
  /\ LET pos == handles[HandleOf(c)].pos
         info == Head(readers[c].todo)
     IN IF ~handles[HandleOf(c)].open
        THEN /\ readers' = [readers EXCEPT ![c].pc = "done",
                                           ![c].todo = <<>>,
                                           ![c].results = <<>>,
                                           ![c].kind = "ValueError"]
             /\ UNCHANGED handles
        ELSE LET last == IF pos + info.length < Len(jsonl.bytes)
                         THEN pos + info.length ELSE Len(jsonl.bytes)
                 line_bytes == SubSeq(jsonl.bytes, pos + 1, last)
                 line == Decode(line_bytes)
                 entry == JsonLoads(StripLine(line.text))
             IN /\ readers' = [readers EXCEPT
                     ![c].pc = "for",
                     ![c].todo = Tail(readers[c].todo),
                     ![c].results =
                        IF line.ok /\ entry # JSONDecodeError
                        THEN Append(@, entry) ELSE @]
                /\ handles' = [handles EXCEPT
                     ![HandleOf(c)] = [open |-> TRUE, pos |-> pos + Len(line_bytes)]]
  /\ UNCHANGED <<opencc, executor, patternVars, phonologyVars, indexVars,
                 agentVars>>

\* the for loop is over: the with block closes the file, query returns
query_return(c) ==
  /\ readers[c].pc = "for"
  /\ \A k \in 1..Len(readers[c].todo) : Len(readers[c].todo[k].headword) # 1
  /\ readers' = [readers EXCEPT ![c].pc = "done", ![c].todo = <<>>,
                                ![c].kind = "records"]
  /\ handles' = [handles EXCEPT ![HandleOf(c)] = [open |-> FALSE, pos |-> 0]]
  /\ UNCHANGED <<opencc, executor, patternVars, phonologyVars, indexVars,
                 agentVars>>

\* the thread takes its records
query_taken(c) ==
  /\ readers[c].pc = "done"
  /\ readers' = [readers EXCEPT ![c] = NoReader]
  /\ UNCHANGED <<opencc, executor, patternVars, phonologyVars, indexVars,
                 agentVars, handles>>

NextLookup ==
  \E c \in Callers :
    \/ query_open(c)
    \/ query_seek(c)
    \/ query_read(c)
    \/ query_return(c)
    \/ query_taken(c)

SpecLookup == InitLookup /\ [][NextLookup]_vars

-----------------------------------------------------------------------------
(* State machine of the classification agent *)

\* the final outputs of the collaborator: free text with or without a label
\* and a written confidence, the texts the executor and analyze put in
\* place of a missing output, and texts with a JSON object
Outputs ==
  LET ClassWords ==
        {<<>>, <<"jiajie", "shuoming">>, <<"jiajie">>, <<"yuyi", "jieshi">>,
         <<"yuyi">>, <<"buqueding">>, <<"yuyi", "jieshi">> \o <<"jiajie">>}
      ConfWords ==
        {<<>>, <<"0.85">>, <<"85%">>, <<"150%">>, <<"1%">>, <<"0.85%">>,
         <<"1.5">>, <<"zhixin", "gao">>, <<"zhixin", "zhong">>,
         <<"zhixin", "di">>}
      ExecutorTexts ==
        {<<"weineng", "shengcheng", "youxiao", "shuchu">>,
         <<"fenxi", "guocheng", "zhong", "chuxian", "cuowu">>}
      Invalid == [kind |-> "invalid", json |-> NoJson]
      Empty == [kind |-> "empty", json |-> NoJson]
      Confidences ==
        {[t |-> "absent", v |-> 0], [t |-> "null", v |-> 0],
         [t |-> "word", v |-> 0], [t |-> "numeral", v |-> 90]}
          \cup {[t |-> "number", v |-> v] :
                  v \in {0 - 10, 0, 30, 85, 95, 100, 150, 8500}}
      StepTexts ==
        {NoSteps,
         [NoSteps EXCEPT !["step4_pattern"] = <<"geshi", "du", "wei">>],
         [NoSteps EXCEPT !["step1_semantic"] = <<"yi", "yuan">>,
                         !["step2_phonetic"] = <<"yin", "jin">>,
                         !["step3_textual"] = <<"you", "zuozheng">>,
                         !["step4_pattern"] = <<"du", "wei", "zhichi", "jiajie">>,
                         !["step5_context"] = <<"zhichi", "jiajie">>]}
      Objects ==
        {[kind |-> "object",
          json |-> [classification |-> c, confidence |-> f,
                    reasoning |-> "dict", steps |-> st,
                    final_judgment |-> <<"du", "wei">>]] :
           c \in {"absent", "null", "jiajieshuoming", "yuyijieshi",
                  "buqueding", "tongjia"},
           f \in Confidences, st \in StepTexts}
          \cup {[kind |-> "object",
                 json |-> [classification |-> "jiajieshuoming",
                           confidence |-> [t |-> "number", v |-> 90],
                           reasoning |-> r, steps |-> NoSteps,
                           final_judgment |-> <<>>]] :
                  r \in {"absent", "string", "null"}}
  IN {[text |-> <<"fenxi">> \o c \o k, blocks |-> b] :
        c \in ClassWords, k \in ConfWords,
        b \in {<<>>, <<Invalid>>, <<Empty>>}}
       \cup {[text |-> t, blocks |-> <<>>] : t \in ExecutorTexts}
       \cup {[text |-> <<"geshi">>, blocks |-> b] :
               b \in {<<o>> : o \in Objects}
                       \cup {<<Invalid, o>> : o \in Objects}}

\* the evidence bundles: the formula signal is one the rule table can give,
\* or the one of no match
Bundles ==
  [semantic : {"close", "distant", "unknown"},
   phonological : {"close", "far"},
   textual : BOOLEAN,
   formula : {[category |-> XUNSHI_PATTERNS[n].type,
               directJudge |-> XUNSHI_PATTERNS[n].direct_judge] :
                n \in CompiledRules}
               \cup {[category |-> "buqueding", directJudge |-> FALSE]},
   context : {"supports_loan", "supports_semantic", "neutral"}]

InitAgent ==
  /\ opencc \in BOOLEAN
  /\ PatternIdle
  /\ file = "absent"
  /\ data = NoData
  /\ PhonologyIdle
  /\ IndexIdle
  /\ AgentIdle
  /\ AggregatorIdle
  /\ LookupIdle
  /\ ExecutorIdle

\* XunguAgent.analyze(xungu_sentence)
analyze ==
  /\ analysis = NoAnalysis
  /\ \E xungu_sentence \in {<<"chong", "fcomma", "du", "wei", "zhong">>,
                            <<"chong", "fcomma", "zhong", "ye">>} :
       LET pattern_result == Identify(opencc, xungu_sentence)
           \* what the tool calls of the analysis returned; no context is
           \* given, so the fifth step is skipped
           Evidence ==
             [semantic : {"close", "distant", "unknown"},
              phonological : {"close", "far"},
              textual : BOOLEAN,
              formula : {[category |-> pattern_result.implied_type,
                          directJudge |-> pattern_result.can_direct_judge]},
              context : {"neutral"}]
       IN \E evidence \in Evidence, output \in Outputs :
            /\ call' = [xungu_sentence |-> xungu_sentence,
                        evidence |-> evidence, output |-> output]
            /\ analysis' = _parse_result(opencc, xungu_sentence, output)
  /\ UNCHANGED <<opencc, executor, lookupVars, patternVars, phonologyVars,
                 indexVars, bundle, cascade>>

\* the caller takes the AnalysisResult, or handles the exception
returned ==
  /\ analysis # NoAnalysis
  /\ analysis' = NoAnalysis
  /\ call' = NoCall
  /\ UNCHANGED <<opencc, executor, lookupVars, patternVars, phonologyVars,
                 indexVars, bundle, cascade>>

NextAgent == analyze \/ returned

SpecAgent == InitAgent /\ [][NextAgent]_vars

-----------------------------------------------------------------------------
(* State machine of the evidence aggregator: one step per rule *)

InitAggregator ==
  /\ opencc = FALSE
  /\ PatternIdle
  /\ file = "absent"
  /\ data = NoData
  /\ PhonologyIdle
  /\ IndexIdle
  /\ AgentIdle
  /\ AggregatorIdle
  /\ LookupIdle
  /\ ExecutorIdle

\* aggregate(bundle) is called
aggregate ==
  /\ cascade.step = 0
  /\ \E b \in Bundles :
       /\ bundle' = b
       /\ cascade' = Cascade(1, "unset", 0, <<>>)
  /\ UNCHANGED <<opencc, executor, lookupVars, patternVars, phonologyVars,
                 indexVars, call, analysis>>

\* rule 1: a direct marker decides, at the base tier 0.9
rule1 ==
  /\ cascade.step = 1
  /\ cascade' =
       IF bundle.formula.directJudge
       THEN Cascade(2, Implied(bundle.formula.category), 90,
                    Append(cascade.rationale, "rule1"))
       ELSE Cascade(2, cascade.classification, cascade.confidence,
                    cascade.rationale)
  /\ UNCHANGED <<opencc, executor, lookupVars, patternVars, phonologyVars,
                 indexVars, call, analysis, bundle>>

\* rule 2: distant meaning and close sound
rule2 ==
  /\ cascade.step = 2
  /\ cascade' =
       IF /\ bundle.semantic = "distant" /\ bundle.phonological = "close"
          /\ bundle.textual
       THEN Cascade(3, "jiajieshuoming", MaxOf(cascade.confidence, 95),
                    Append(cascade.rationale, "rule2_textual"))
       ELSE IF /\ bundle.semantic = "distant" /\ bundle.phonological = "close"
               /\ bundle.context = "supports_loan"
            THEN Cascade(3, "jiajieshuoming", MaxOf(cascade.confidence, 85),
                         Append(cascade.rationale, "rule2_context"))
            ELSE Cascade(3, cascade.classification, cascade.confidence,
                         cascade.rationale)
  /\ UNCHANGED <<opencc, executor, lookupVars, patternVars, phonologyVars,
                 indexVars, call, analysis, bundle>>

rule3 ==
  /\ cascade.step = 3
  /\ cascade' = Rule3(bundle, cascade)
  /\ UNCHANGED <<opencc, executor, lookupVars, patternVars, phonologyVars,
                 indexVars, call, analysis, bundle>>

\* rule 4: the fallback when no rule fired
rule4 ==
  /\ cascade.step = 4
  /\ cascade' =
       IF cascade.classification # "unset"
       THEN Cascade(5, cascade.classification, cascade.confidence,
                    cascade.rationale)
       ELSE IF bundle.formula.category = "buqueding"
            THEN Cascade(5, "yuyijieshi", 50,
                         Append(cascade.rationale, "rule4_default"))
            ELSE Cascade(5, Implied(bundle.formula.category), 60,
                         Append(cascade.rationale, "rule4_formula"))
  /\ UNCHANGED <<opencc, executor, lookupVars, patternVars, phonologyVars,
                 indexVars, call, analysis, bundle>>

\* the verdict is returned; the aggregator keeps nothing of the call
verdict ==
  /\ cascade.step = 5
  /\ cascade' = NoCascade
  /\ bundle' = NoBundle
  /\ UNCHANGED <<opencc, executor, lookupVars, patternVars, phonologyVars,
                 indexVars, call, analysis>>

NextAggregator == aggregate \/ rule1 \/ rule2 \/ rule3 \/ rule4 \/ verdict

SpecAggregator == InitAggregator /\ [][NextAggregator]_vars

-----------------------------------------------------------------------------
(* State machine of SimpleAgentExecutor.invoke: src/agent/xungu_agent.py    *)
(*                                                                         *)
(* executor holds the fields of the executor and the locals of invoke; pc  *)
(* is the position in invoke.  A step is one pass of the while loop up to  *)
(* the agent's answer, one tool call of the for loop, the end of the for   *)
(* loop, or the extraction of the output.  The agent and the tools are the *)
(* collaborators: what they answer is chosen freely.  Texts: fenxi is an   *)
(* answer of the model, jieguo a tool result, cuowu 错误, weizhi_gongju     *)
(* 未知工具, jiexi_cuowu 解析错误, weineng 未能生成有效输出.                  *)

MaxIterations == 2

MaxCalls == 4

\* HumanMessage, AIMessage, ToolMessage
Message(type, content, tool_calls, tool_call_id) ==
  [type |-> type, content |-> content, tool_calls |-> tool_calls,
   tool_call_id |-> tool_call_id]

InitExecutor ==
  /\ opencc = FALSE
  /\ PatternIdle
  /\ file = "absent"
  /\ data = NoData
  /\ PhonologyIdle
  /\ IndexIdle
  /\ AgentIdle
  /\ AggregatorIdle
  /\ LookupIdle
  /\ executor \in
       [pc : {"idle"},
        max_iterations : 0..MaxIterations,
        max_execution_time : {0, 1},
        handle_parsing_errors : BOOLEAN,
        messages : {<<>>}, iterations : {0}, pending : {<<>>},
        tool_results : {<<>>}, output : {""}, agent_calls : {0}]

\* invoke(input_data) up to the while loop
invoke ==
  /\ executor.pc = "idle"
  /\ executor' = [executor EXCEPT
       !.pc = "while",
       !.messages = <<Message("human", "input", <<>>, "")>>,
       !.iterations = 0]
  /\ UNCHANGED <<opencc, lookupVars, patternVars, phonologyVars, indexVars,
                 agentVars>>

\* the except branch of the while loop, without the count of the pass
ExceptionPassUncounted(e) ==
  IF e.handle_parsing_errors
  THEN [e EXCEPT !.pc = "while",
                 !.messages = Append(@, Message("ai", "jiexi_cuowu", <<>>, ""))]
  ELSE [e EXCEPT !.pc = "raised"]

\* the except branch of the while loop
ExceptionPass(e) ==
  IF e.handle_parsing_errors
  THEN [e EXCEPT !.pc = "while",
                 !.messages = Append(@, Message("ai", "jiexi_cuowu", <<>>, "")),
                 !.iterations = @ + 1]
  ELSE [e EXCEPT !.pc = "raised"]

\* one pass of the while loop: the loop test, the time test, the call of the
\* agent, the handling of its response and the test of the last message.
\* The agent raises, or answers one message, a list of messages (as a list,
\* under the key "messages" or in the attribute messages), or an object that
\* is none of these.
agent_pass ==
  /\ executor.pc = "while"
  /\ executor.agent_calls < MaxCalls
  /\ IF executor.iterations >= executor.max_iterations
     THEN executor' = [executor EXCEPT !.pc = "extract"]
     ELSE \E timeout \in IF executor.max_execution_time # 0 THEN BOOLEAN
                         ELSE {FALSE} :
       IF timeout
       THEN executor' = [executor EXCEPT !.pc = "extract"]
       ELSE
         LET call1 == [name |-> "query_phonology", id |-> "c1"]
             call2 == [name |-> "identify_pattern", id |-> "c2"]
             call3 == [name |-> "search", id |-> "c3"]
             ToolCallLists ==
               {<<>>, <<call1>>, <<call3>>, <<call1, call2>>,
                <<call2, call3>>}
             called == [executor EXCEPT !.agent_calls = @ + 1]
             Last(messages) ==
               IF /\ messages # <<>>
                  /\ messages[Len(messages)].type = "ai"
                  /\ messages[Len(messages)].tool_calls # <<>>
               THEN [called EXCEPT
                       !.pc = "tools", !.messages = messages,
                       !.pending = messages[Len(messages)].tool_calls,
                       !.tool_results = <<>>]
               ELSE [called EXCEPT !.pc = "extract", !.messages = messages]
         IN \/ executor' = ExceptionPass(called)
            \/ executor' = [called EXCEPT !.pc = "extract"]
            \/ executor' = Last(<<>>)
            \/ \E content \in {"", "fenxi"}, tool_calls \in ToolCallLists :
                 executor' =
                   Last(Append(executor.messages,
                               Message("ai", content, tool_calls, "")))
  /\ UNCHANGED <<opencc, lookupVars, patternVars, phonologyVars, indexVars,
                 agentVars>>

\* the answer to a tool call whose tool is not asked
ToolAnswerUnknownUnanswered(tool_call, outcome) ==
  IF tool_call.name \in {"query_phonology", "identify_pattern"}
  THEN IF outcome = "result"
       THEN <<Message("tool", "jieguo", <<>>, tool_call.id)>>
       ELSE <<Message("tool", "cuowu", <<>>, tool_call.id)>>
  ELSE <<>>

\* the tool messages one tool call adds to tool_results: the result of the
\* tool, the error it raised, or the unknown-tool text, each with the id of
\* the call
ToolAnswer(tool_call, outcome) ==
  IF tool_call.name \in {"query_phonology", "identify_pattern"}
  THEN IF outcome = "result"
       THEN <<Message("tool", "jieguo", <<>>, tool_call.id)>>
       ELSE <<Message("tool", "cuowu", <<>>, tool_call.id)>>
  ELSE <<Message("tool", "weizhi_gongju", <<>>, tool_call.id)>>

\* one pass of the for loop over last_message.tool_calls
run_tool ==
  /\ executor.pc = "tools"
  /\ executor.pending # <<>>
  /\ \E outcome \in {"result", "raise"} :
       executor' = [executor EXCEPT
         !.tool_results = @ \o ToolAnswer(Head(executor.pending), outcome),
         !.pending = Tail(@)]
  /\ UNCHANGED <<opencc, lookupVars, patternVars, phonologyVars, indexVars,
                 agentVars>>

\* after the for loop: messages.extend(tool_results); iterations += 1
extend_messages ==
  /\ executor.pc = "tools"
  /\ executor.pending = <<>>
  /\ executor' = [executor EXCEPT
       !.pc = "while",
       !.messages = @ \o executor.tool_results,
       !.tool_results = <<>>,
       !.iterations = @ + 1]
  /\ UNCHANGED <<opencc, lookupVars, patternVars, phonologyVars, indexVars,
                 agentVars>>

\* after the while loop: the content of the last AIMessage that has one, or
\* the fixed text; return {"output": output}
return_output ==
  /\ executor.pc = "extract"
  /\ LET messages == executor.messages
         S == {i \in 1..Len(messages) :
                 messages[i].type = "ai" /\ messages[i].content # ""}
     IN executor' = [executor EXCEPT
          !.pc = "returned",
          !.output = IF S = {} THEN "weineng"
                     ELSE messages[CHOOSE i \in S : \A j \in S : j <= i].content]
  /\ UNCHANGED <<opencc, lookupVars, patternVars, phonologyVars, indexVars,
                 agentVars>>

\* the caller takes the dictionary, or handles the exception
output_taken ==
  /\ executor.pc \in {"returned", "raised"}
  /\ executor' = [executor EXCEPT
       !.pc = "idle", !.messages = <<>>, !.iterations = 0, !.pending = <<>>,
       !.tool_results = <<>>, !.output = "", !.agent_calls = 0]
  /\ UNCHANGED <<opencc, lookupVars, patternVars, phonologyVars, indexVars,
                 agentVars>>

NextExecutor ==
  \/ invoke
  \/ agent_pass
  \/ run_tool
  \/ extend_messages
  \/ return_output
  \/ output_taken

SpecExecutor == InitExecutor /\ [][NextExecutor]_vars

\* invoke is sequential code: a step that can be taken is taken, the agent
\* and the tools answer or raise
SpecExecutorLive == SpecExecutor /\ WF_vars(NextExecutor)

-----------------------------------------------------------------------------
(* Properties of the formula recogniser *)

Identified == result # NoResult

\* the sentence the rules were tried on
Normalized == Normalize(opencc, sentence)

Matches(name, s) == Search(XUNSHI_PATTERNS[name].regex, s).ok

\* simplified form of a character
Simplified(c) ==
  IF c = "zhongT" THEN "zhong"
  ELSE IF c = "duT" THEN "du"
  ELSE IF c = "weiT" THEN "wei"
  ELSE c

\* what script normalisation makes of a character in this environment
Normal(c) == IF opencc THEN Simplified(c) ELSE c

\* t occurs in s as a run of consecutive characters
Contains(s, t) ==
  \E p \in 0..(Len(s) - Len(t)) : SubSeq(s, p + 1, p + Len(t)) = t

\* the marker words of each formula
KeywordsOf(name) ==
  CASE name = "du_wei" -> {<<"du", "wei">>}
    [] name = "du_yue" -> {<<"du", "yue">>}
    [] name = "du_dang_wei" -> {<<"dang", "wei">>}
    [] name = "dang_wei" -> {<<"dang", "wei">>}
    [] name = "dang_zuo" -> {<<"dang", "zuo">>}
    [] name = "tong" -> {<<"tong">>}
    [] name = "gu_zi_tong" -> {<<"gu", "zi", "tong">>}
    [] name = "jia_jie_zi" -> {<<"jia", "jie", "zi">>}
    [] name = "jie_wei" -> {<<"jie", "wei">>}
    [] name = "zhi_yan" -> {<<"zhi", "yan">>, <<"zhi", "wei", "yan">>}
    [] name = "wei_zhi" -> {<<"weiz", "zhi">>}
    [] name = "zhi_mao" -> {<<"zhi", "mao">>}
    [] name = "mao" -> {<<"mao">>}
    [] name = "suo_yi" -> {<<"suo", "yi">>}
    [] name = "you" -> {<<"you">>}
    [] name = "you_yan" -> {<<"you", "yan">>}
    [] name = "du_ruo" -> {<<"du", "ruo">>}
    [] name = "du_ru" -> {<<"du", "ru">>}
    [] name = "huo_zuo" -> {<<"huo", "zuo">>}
    [] name = "sheng_jin" -> {<<"sheng", "jin">>}
    [] name = "zhe_ye" -> {<<"zhe">>}
    [] name = "ji" -> {<<"ji">>}
    [] OTHER -> {<<"ye">>}

\* s (in either script) carries no marker word of the formulas in rules
KeywordFree(s, rules) ==
  \A name \in rules :
    \A kw \in KeywordsOf(name) :
      ~Contains([q \in 1..Len(s) |-> Simplified(s[q])], kw)

\* C1: identify reports the first rule of the priority list whose regex matches
\* the normalized sentence: no rule at an earlier position matches, and a
\* sentence some rule matches is never reported unknown.
C1_FirstMatchWins ==
  Identified =>
    /\ \A j \in 1..Len(priority_order) :
         result.pattern_name = priority_order[j] =>
           /\ Matches(priority_order[j], Normalized)
           /\ \A i \in 1..(j - 1) : ~Matches(priority_order[i], Normalized)
    /\ (\E j \in 1..Len(priority_order) : Matches(priority_order[j], Normalized))
         => result.pattern_name # "unknown"

\* a sentence both the first and the last rule of the list match
C1_Witness ==
  /\ Identified
  /\ result.pattern_name = "du_wei"
  /\ Matches("A_ye", Normalized)

\* evidentiary strength group of a rule of the table
Strength(name) ==
  LET r == XUNSHI_PATTERNS[name]
  IN CASE r.type = "jiajie" /\ r.direct_judge -> 1
       [] r.type = "yisheng_tongyi" -> 2
       [] r.type = "yuyi_jieshi" /\ r.direct_judge -> 3
       [] r.type = "keneng_jiajie" -> 4
       [] r.type = "buqueding" -> 5
       [] OTHER -> 0

\* C2: the priority list is grouped by descending evidentiary strength
\* (direct phonetic loan, sound-carries-meaning, direct semantic gloss,
\* possible phonetic loan, uncertain), ends with the generic rule A也, and
\* names every rule of the table exactly once and nothing else.
C2_PriorityGrouped ==
  /\ patterns = DOMAIN XUNSHI_PATTERNS
  /\ \A j \in 1..Len(priority_order) : priority_order[j] \in patterns
  /\ \A name \in patterns :
       Cardinality({j \in 1..Len(priority_order) : priority_order[j] = name}) = 1
  /\ \A i, j \in 1..Len(priority_order) :
       i < j => /\ Strength(priority_order[i]) >= 1
                /\ Strength(priority_order[i]) <= Strength(priority_order[j])
  /\ priority_order[Len(priority_order)] = "A_ye"

\* the last entry of the list decided a sentence
C2_Witness ==
  /\ Identified
  /\ result.pattern_name = "A_ye"
  /\ sentence = <<"chong", "fcomma", "zhongT", "ye">>

NoRuleMatches(s) == \A name \in DOMAIN XUNSHI_PATTERNS : ~Matches(name, s)

\* the first ideograph of s, empty when there is none
FirstIdeograph(s) ==
  IF \E j \in 1..Len(s) : s[j] \in Ideographs
  THEN LET j == CHOOSE k \in 1..Len(s) :
                  /\ s[k] \in Ideographs
                  /\ \A q \in 1..(k - 1) : s[q] \notin Ideographs
       IN <<s[j]>>
  ELSE <<>>

Degenerate(a) ==
  [pattern_name |-> "unknown", char_a |-> a, char_b |-> <<>>,
   implied_type |-> "buqueding", confidence |-> "di",
   can_direct_judge |-> FALSE]

\* C3 as stated: a sentence no rule matches yields the degenerate result whose
\* target is the first ideograph of the input sentence.
C3_UnknownOfInput ==
  (Identified /\ NoRuleMatches(Normalized)) =>
    result = Degenerate(FirstIdeograph(sentence))

\* C3, amended: a sentence no rule matches yields the degenerate result
\* (unknown, uncertain, low, not direct, empty gloss) whose target is the first
\* ideograph of the script-normalized sentence.
C3_UnknownDegenerate ==
  (Identified /\ NoRuleMatches(Normalized)) =>
    result = Degenerate(FirstIdeograph([q \in 1..Len(sentence) |-> Normal(sentence[q])]))

\* an unmatched sentence whose first character is no ideograph
C3_Witness ==
  /\ Identified
  /\ NoRuleMatches(Normalized)
  /\ sentence = <<"a", "zhongT">>

\* sentence of the form X，读为Y with X and Y single ideographs
ReadAsForm(s) ==
  /\ Len(s) = 5
  /\ s[1] \in Ideographs
  /\ s[2] = "fcomma"
  /\ s[3] = "du"
  /\ s[4] = "wei"
  /\ s[5] \in Ideographs

\* C4 as stated: X，读为Y is the read-as formula with target X and gloss Y.
C4_ReadAsOfInput ==
  (Identified /\ ReadAsForm(sentence)) =>
    /\ result.pattern_name = "du_wei"
    /\ result.implied_type = "jiajie"
    /\ result.can_direct_judge
    /\ result.char_a = <<sentence[1]>>
    /\ result.char_b = <<sentence[5]>>

\* C4, amended: X，读为Y is the read-as formula (phonetic loan, direct judge)
\* with target and gloss the script-normalized forms of X and Y.
C4_ReadAs ==
  (Identified /\ ReadAsForm(sentence)) =>
    /\ result.pattern_name = "du_wei"
    /\ result.implied_type = "jiajie"
    /\ result.can_direct_judge
    /\ result.char_a = <<Normal(sentence[1])>>
    /\ result.char_b = <<Normal(sentence[5])>>

\* 崇，读为也: the generic rule matches too
C4_Witness ==
  /\ Identified
  /\ ReadAsForm(sentence)
  /\ Matches("A_ye", Normalized)
  /\ sentence[1] # sentence[5]

\* sentence of the form X，Y也 with X and Y single ideographs
GenericForm(s) ==
  /\ Len(s) = 4
  /\ s[1] \in Ideographs
  /\ s[2] = "fcomma"
  /\ s[3] \in Ideographs
  /\ s[4] = "ye"
  /\ KeywordFree(s, DOMAIN XUNSHI_PATTERNS \ {"A_ye"})

\* C5 as stated: X，Y也 without a marker of another formula is the generic
\* rule with target X and gloss Y.
C5_GenericOfInput ==
  (Identified /\ GenericForm(sentence)) =>
    /\ result.pattern_name = "A_ye"
    /\ result.implied_type = "buqueding"
    /\ ~result.can_direct_judge
    /\ result.char_a = <<sentence[1]>>
    /\ result.char_b = <<sentence[3]>>

\* C5, amended: X，Y也 without a marker of another formula is the generic
\* rule (uncertain, not direct) with target and gloss the script-normalized
\* forms of X and Y.
C5_Generic ==
  (Identified /\ GenericForm(sentence)) =>
    /\ result.pattern_name = "A_ye"
    /\ result.implied_type = "buqueding"
    /\ ~result.can_direct_judge
    /\ result.char_a = <<Normal(sentence[1])>>
    /\ result.char_b = <<Normal(sentence[3])>>

C5_Witness ==
  /\ Identified
  /\ GenericForm(sentence)
  /\ sentence[1] = "chong"
  /\ sentence[3] = "zhongT"

\* sentence of the form X，Y貌 with X and Y one or more ideographs
AppearanceForm(s) ==
  /\ Len(s) >= 4
  /\ s[Len(s)] = "mao"
  /\ \E c \in 2..(Len(s) - 2) :
       /\ s[c] = "fcomma"
       /\ \A q \in (1..(Len(s) - 1)) \ {c} : s[q] \in Ideographs
  /\ KeywordFree(s, {name \in DOMAIN XUNSHI_PATTERNS : Strength(name) < 3})

\* C6: X，Y貌 without a marker of a formula of a stronger group implies a
\* semantic gloss that can be judged directly.
C6_Appearance ==
  (Identified /\ AppearanceForm(sentence)) =>
    /\ result.implied_type = "yuyi_jieshi"
    /\ result.can_direct_judge

\* 崇，读若终貌: a lower-priority marker inside the gloss
C6_Witness ==
  /\ Identified
  /\ AppearanceForm(sentence)
  /\ Contains(sentence, <<"du", "ruo">>)

\* C23: the target and the gloss of every result of identify, on every rule
\* including the fallback with its second match, contain none of the
\* punctuation characters of the cleanup set of _clean_char.
C23_NoPunctuation ==
  (result # NoResult) =>
    /\ \A j \in 1..Len(result.char_a) : result.char_a[j] \notin CleanPunct
    /\ \A j \in 1..Len(result.char_b) : result.char_b[j] \notin CleanPunct

\* the rules of the priority list
Rules == {priority_order[i] : i \in 1..Len(priority_order)}

\* C28: every rule of the priority list is reported by identify for at
\* least one sentence; no rule matches only sentences that an earlier rule
\* of the list matches too.
C28_EveryRuleReachable ==
  \A name \in Rules :
    \E s \in IdentifySentences : Identify(opencc, s).pattern_name = name

-----------------------------------------------------------------------------
(* Properties of the phonological comparator *)

\* traditional form of a character
Traditional(c) == IF c = "zhong" THEN "zhongT" ELSE c

\* char has an entry in the loaded index, under its traditional form when the
\* script converter is available, or under the form given
Resolved(char) ==
  \/ char \in DOMAIN _index
  \/ opencc /\ Traditional(char) \in DOMAIN _index

Compared == out.kind = "close"

Elements(q) == {q[j] : j \in 1..Len(q)}

\* C7: when at least one character of the pair does not resolve in the
\* phonology index, the verdict is not close and the explanation states that
\* data is missing.
C7_MissingNeverClose ==
  (Compared /\ (~Resolved(out.char1) \/ ~Resolved(out.char2))) =>
    /\ ~out.is_close
    /\ "shuju_queshi" \in Elements(out.analysis)

\* one character resolves, the other does not
C7_Witness ==
  /\ Compared
  /\ Resolved(out.char1)
  /\ ~Resolved(out.char2)

\* C8: two characters that both resolve and have the same rhyme class are
\* close, whether or not their initial classes agree and whatever their
\* reconstructions are.  (A character without the 潘悟云 section has no
\* rhyme class: query reports the sentinel 未知 for it.)
C8_SameRhymeClose ==
  (/\ Compared
   /\ Resolved(out.char1)
   /\ Resolved(out.char2)
   /\ out.char1_info.yunbu = out.char2_info.yunbu
   /\ out.char1_info.yunbu # UNKNOWN) => out.is_close

\* same rhyme class, different initial classes, dissimilar reconstructions
C8_Witness ==
  /\ Compared
  /\ Resolved(out.char1)
  /\ Resolved(out.char2)
  /\ out.char1 # out.char2
  /\ out.char1_info.yunbu = "dong"
  /\ out.char2_info.yunbu = "dong"
  /\ out.char1_info.shengmu # out.char2_info.shengmu
  /\ ~SimilarEnough(_clean_ipa(out.char1_info.shanggu_yin),
                    _clean_ipa(out.char2_info.shanggu_yin))

\* the reconstruction of an entry of the unified data that is compared
BestRecon(e) ==
  _clean_ipa(IF e.bs.present THEN e.bs.oc
             ELSE IF e.pan.present THEN e.pan.oc ELSE <<>>)

\* C9: initial-class identity never makes a pair close: resolved characters
\* whose rhyme classes differ and whose reconstructions are less similar than
\* the threshold are not near in sound, in PhonologyTool.is_phonetically_close
\* and in compare_phonology alike.
C9_InitialNeverDecides ==
  /\ (/\ Compared
      /\ Resolved(out.char1)
      /\ Resolved(out.char2)
      /\ out.char1_info.yunbu # out.char2_info.yunbu
      /\ ~SimilarEnough(_clean_ipa(out.char1_info.shanggu_yin),
                        _clean_ipa(out.char2_info.shanggu_yin)))
       => ~out.is_close
  /\ (/\ out.kind = "compare"
      /\ out.found_a
      /\ out.found_b
      /\ data[out.char_a].pan.present
      /\ data[out.char_b].pan.present
      /\ data[out.char_a].pan.yunbu \in {"dong", "yang"}
      /\ data[out.char_b].pan.yunbu \in {"dong", "yang"}
      /\ data[out.char_a].pan.yunbu # data[out.char_b].pan.yunbu
      /\ ~SimilarEnough(BestRecon(data[out.char_a]), BestRecon(data[out.char_b])))
       => ~out.yin_jin

\* C10: every result of the comparator carries the four fields is_close,
\* same_yunbu, same_shengmu and analysis, also when a character is missing.
C10_FourFields ==
  Compared =>
    {"is_close", "same_yunbu", "same_shengmu", "analysis"} \subseteq DOMAIN out

\* the similarity ratio of two cleaned reconstructions, in percent, rounded
\* down; 0 when either is empty
Ratio(s1, s2) ==
  IF s1 = <<>> \/ s2 = <<>> THEN 0
  ELSE (200 * MatchedCount(s1, s2)) \div (Len(s1) + Len(s2))

C25_LoadedOnce ==
  [][(_loaded \/ reads >= 1)
       => (reads' = reads /\ _index' = _index /\ _loaded' = _loaded)]_vars

\* C26: a resolved character whose rhyme class is absent, the unknown
\* sentinel or the empty string is never in the same rhyme class as any
\* other character.
C26_NoClassNeverSame ==
  (/\ Compared
   /\ Resolved(out.char1)
   /\ Resolved(out.char2)
   /\ "same_yunbu" \in DOMAIN out
   /\ \/ out.char1_info.yunbu \in {"", UNKNOWN}
      \/ out.char2_info.yunbu \in {"", UNKNOWN})
    => ~out.same_yunbu

-----------------------------------------------------------------------------
(* Properties of the corpus offset index *)

\* the lines of the file as they lie in it: start (bytes before the line),
\* length in bytes with the terminator, and the JSON value of the line
RECURSIVE SourceLines(_, _)
SourceLines(bytes, pos) ==
  IF pos > Len(bytes) THEN <<>>
  ELSE LET next == readline(bytes, pos).next
       IN <<[start |-> pos - 1, length |-> next - pos,
             record |-> JsonLoads(StripLine(
                          Decode(SubSeq(bytes, pos, next - 1)).text))]>>
            \o SourceLines(bytes, next)

Lines == SourceLines(jsonl.bytes, 1)

\* a line that is an entry: an object with a non-empty headword string that
\* does not start with the reserved prefix
IsEntry(record) ==
  /\ record.type = "object"
  /\ record.hwtype = "string"
  /\ record.headword # <<>>
  /\ record.headword[1] # "hash"

\* C11: after build_index over the corpus, every record that query(char)
\* returns from the same corpus is the JSON record of a source line that is
\* an entry under char, whatever the line terminators are and however many
\* skipped lines precede it.
C11_RoundTrip ==
  (/\ served.kind = "records"
   /\ builder.kind = "ok"
   /\ loader.loaded
   /\ loader.index = builder.index)
    => \A i \in 1..Len(served.records) :
         \E k \in 1..Len(Lines) :
           /\ Lines[k].record = served.records[i]
           /\ IsEntry(Lines[k].record)
           /\ Lines[k].record.headword[1] = served.char

\* C12: every entry that build_index records has offset = the number of file
\* bytes of all preceding lines and length = the number of file bytes of its
\* own line, terminator included.
C12_ByteCursor ==
  (builder.kind = "ok")
    => \A c \in DOMAIN builder.index :
         \A i \in 1..Len(builder.index[c]) :
           \E k \in 1..Len(Lines) :
             /\ Lines[k].start = builder.index[c][i].offset
             /\ Lines[k].length = builder.index[c][i].length
             /\ Lines[k].record.headword = builder.index[c][i].headword

\* the index has an entry with this headword
Indexed(headword) ==
  /\ headword # <<>>
  /\ headword[1] \in DOMAIN builder.index
  /\ \E i \in 1..Len(builder.index[headword[1]]) :
       builder.index[headword[1]][i].headword = headword

\* C13: a build over an existing corpus always completes, whatever lines of
\* the corpus are not usable records, and indexes exactly the entries.
C13_MalformedNeverAborts ==
  (builder.builds = 1 /\ jsonl.exists)
    => /\ builder.kind = "ok"
       /\ \A k \in 1..Len(Lines) :
            IsEntry(Lines[k].record) <=> Indexed(Lines[k].record.headword)

\* C14: with no index file, a lookup never hands over a normal result: it
\* fails with the error that tells the caller to run the build step.
C14_IndexNotBuilt ==
  (~index_file.exists /\ served # NoServed)
    => /\ served.kind = "FileNotFoundError"
       /\ served.message = "index missing, run build_dyhdc_index"

\* the bytes of the corpus that an index entry points at, decoded and parsed
ReadRecord(info) ==
  LET first == info.offset + 1
      last == IF info.offset + info.length < Len(jsonl.bytes)
              THEN info.offset + info.length ELSE Len(jsonl.bytes)
      line == Decode(SubSeq(jsonl.bytes, first, last))
      entry == JsonLoads(StripLine(line.text))
  IN [ok |-> line.ok /\ entry # JSONDecodeError, entry |-> entry]

\* the index entries under char whose record a lookup hands over
Kept(char) ==
  IF char \in DOMAIN loader.index
  THEN SelectSeq(loader.index[char],
                 LAMBDA info : Len(info.headword) = 1 /\ ReadRecord(info).ok)
  ELSE <<>>

C27_RebuildIdempotent ==
  (builder.builds >= 2 /\ builder.kind = "ok")
    => /\ builder.index = BuildLoop(jsonl.bytes, 1, 0, EmptyIndex).index
       /\ index_file.index = BuildLoop(jsonl.bytes, 1, 0, EmptyIndex).index
       /\ index_file.total_entries
            = Cardinality({i \in 1..Len(Lines) : IsEntry(Lines[i].record)})

\* what query(char) returns to a thread that runs alone
Alone(char) ==
  LET index == load_index(NewLoader, index_file).index
  IN IF char \notin DOMAIN index THEN <<>>
     ELSE QueryLoop(jsonl.bytes, index[char])

\* C24: whatever the interleaving of the seek and read steps of the threads
\* inside query, a thread that has returned from query(char) holds exactly
\* the records it would hold had it run alone.
C24_ConcurrentLookups ==
  \A c \in Callers :
    readers[c].pc = "done"
      => /\ readers[c].kind = "records"
         /\ readers[c].results = Alone(readers[c].char)

\* one thread has returned its records while another, which asked for a
\* different character, has positioned its file object and not yet read
C24_Witness ==
  \E c, d \in Callers :
    /\ readers[c].pc = "done"
    /\ readers[c].results # <<>>
    /\ readers[d].pc = "read"
    /\ readers[d].char # readers[c].char
    /\ handles[d].open
    /\ handles[d].pos > 0

\* C15: a build whose corpus file does not exist reports the failure,
\* returns no index entries, adds none to the builder and leaves the
\* persisted index file as it was (absent or not).
C15_MissingCorpus ==
  [][(~jsonl.exists /\ builder'.builds # builder.builds)
       => /\ builder'.kind = "file_missing"
          /\ builder'.returned = EmptyIndex
          /\ builder'.index = builder.index
          /\ index_file' = index_file]_vars

C15_Witness ==
  /\ ~jsonl.exists
  /\ builder.kind = "file_missing"
  /\ index_file = StaleFile

-----------------------------------------------------------------------------
(* Properties of the classification agent and of the evidence aggregator *)

\* C16: every analysis that was asked for ends with a result, and its
\* classification is 假借说明 or 语义解释, whatever the collaborator wrote.
C16_TwoLabels ==
  (analysis # NoAnalysis)
    => /\ analysis.status = "ok"
       /\ analysis.classification \in {"jiajieshuoming", "yuyijieshi"}

\* C17: the confidence of every result lies between 0 and 1, on the JSON
\* path and on the free-text path.
C17_ConfidenceRange ==
  (analysis.status = "ok")
    => /\ analysis.confidence >= 0
       /\ analysis.confidence <= 100

\* C18: no rule of the cascade lowers the running confidence; in particular
\* a rule that overrides the classification of an earlier rule leaves the
\* confidence at least as high as it was.
C18_NeverDecreases ==
  [][(cascade.step >= 1 /\ cascade'.step = cascade.step + 1)
       => cascade'.confidence >= cascade.confidence]_vars

C18_Witness ==
  /\ cascade.step = 5
  /\ cascade.rationale = <<"rule1", "rule2_textual">>
  /\ Implied(bundle.formula.category) = "yuyijieshi"
  /\ cascade.classification = "jiajieshuoming"
  /\ cascade.confidence = 95

\* C19: for a sentence with the read-as formula whose evidence is distant
\* meaning, close sound and textual corroboration, the result is 假借说明
\* with confidence at least 0.9 and a reasoning that names the formula.
C19_ReadAsVerdict ==
  (/\ analysis.status = "ok"
   /\ Within(<<"du", "wei">>, call.xungu_sentence)
   /\ call.evidence.formula = [category |-> "jiajie", directJudge |-> TRUE]
   /\ call.evidence.semantic = "distant"
   /\ call.evidence.phonological = "close"
   /\ call.evidence.textual)
    => /\ analysis.classification = "jiajieshuoming"
       /\ analysis.confidence >= 90
       /\ Within(<<"du", "wei">>, analysis.final_reasoning)

\* C20: after analyze on a sentence with the read-as formula, step4_pattern
\* has the key 格式 and its value is 读为.
C20_Step4Format ==
  (/\ analysis.status = "ok"
   /\ Within(<<"du", "wei">>, call.xungu_sentence))
    => /\ "geshi" \in DOMAIN analysis.step4_pattern
       /\ analysis.step4_pattern["geshi"] = <<"du", "wei">>

-----------------------------------------------------------------------------
(* Properties of SimpleAgentExecutor.invoke *)

\* the content of the last AI message of messages that has one, read from
\* the end
RECURSIVE LastContent(_)
LastContent(messages) ==
  IF messages = <<>> THEN ""
  ELSE IF /\ messages[Len(messages)].type = "ai"
          /\ messages[Len(messages)].content # ""
       THEN messages[Len(messages)].content
       ELSE LastContent(SubSeq(messages, 1, Len(messages) - 1))

\* invoke calls the agent at most max_iterations times, and what it returns
\* is the content of the last non-empty AI message or the fixed text
CallsAndOutput ==
  /\ executor.agent_calls <= executor.max_iterations
  /\ executor.pc = "returned"
       => /\ executor.output # ""
          /\ executor.output = IF LastContent(executor.messages) # ""
                               THEN LastContent(executor.messages)
                               ELSE "weineng"

Answered(messages, i) ==
  LET tool_calls == messages[i].tool_calls
      n == Len(tool_calls)
  IN /\ Len(messages) >= i + n
     /\ \A k \in 1..n :
          /\ messages[i + k].type = "tool"
          /\ messages[i + k].tool_call_id = tool_calls[k].id
          /\ messages[i + k].content \in
               IF tool_calls[k].name \in {"query_phonology", "identify_pattern"}
               THEN {"jieguo", "cuowu"} ELSE {"weizhi_gongju"}
     /\ Len(messages) > i + n => messages[i + n + 1].type # "tool"

\* C30: when the agent is about to be called, every AI message with tool
\* calls c1..cn is followed by exactly n tool messages, the k-th with the
\* tool_call_id of ck and, when the tool is unknown or raised, an error text.
C30_ToolCallsAnswered ==
  executor.pc = "while"
    => \A i \in 1..Len(executor.messages) :
         (executor.messages[i].type = "ai"
            /\ executor.messages[i].tool_calls # <<>>)
           => Answered(executor.messages, i)

\* two tool calls, the first of a tool that raised, the second of an unknown
\* tool, have been answered and the agent is about to be called again
C30_Witness ==
  /\ executor.pc = "while"
  /\ \E i \in 1..Len(executor.messages) :
       /\ executor.messages[i].type = "ai"
       /\ Len(executor.messages[i].tool_calls) = 2
       /\ executor.messages[i].tool_calls[2].name = "search"
       /\ Len(executor.messages) = i + 2
       /\ executor.messages[i + 1].content = "cuowu"
       /\ executor.messages[i + 2].content = "weizhi_gongju"
       /\ executor.messages[i + 2].tool_call_id = "c3"

====
